---- MODULE Spec2Model ----
(***************************************************************************)
(* PackageQueue of a3m (a3m/server/queues.py): the bounded-concurrency     *)
(* admission of packages and the dispatch of their jobs.                   *)
(*                                                                         *)
(* Threads.  The processing loop (work) runs on the main thread.  The      *)
(* ThreadPoolExecutor's workers run Package.trigger_workflow (which calls  *)
(* schedule_job with a package's first job) and Job.run.  A completion     *)
(* callback runs on the worker that finished the job when it was           *)
(* registered before the job finished, and inline on the main thread when  *)
(* add_done_callback finds the future already finished.  An exception      *)
(* raised inside a callback is caught and logged by the future.            *)
(*                                                                         *)
(* Atomicity.  One action holds at most one access to a shared object:     *)
(* one critical section of active_package_lock, one operation of one       *)
(* queue.Queue, one read of the shutdown event, one operation of a future. *)
(***************************************************************************)
EXTENDS Integers, Sequences, FiniteSets, TLC

\* Packages created by Package.create_package in one run of the model: with the
\* executor's two workers, with one worker, and under fair scheduling.
NumPackages == 3
NumPackagesOneWorker == 5
NumPackagesLive == 2
\* Jobs one package's chain can produce.
MaxJobs == 2
\* The constructor's max_concurrent_packages ranges over 1..MaxConcurrent.
MaxConcurrent == 1
\* The constructor's max_queued_packages ranges over 1..MaxQueued.
MaxQueued == 1
\* Packages created while their status is read.
NumPackagesStatus == 1
\* Packages created for an executor of three workers.
NumPackagesPool == 3
\* Packages created while their status is read and the threads run.
NumPackagesRead == 2
\* Rows of models.Job, and the values of their createdtime and createdtimedec.
MaxJobRows == 2
MaxTime == 2
MaxTimeDec == 1

\* The rows of the UnitVariable table.
MaxUnitVariables == 2
\* The tasks of a job's batch.
MaxTasks == 3

VARIABLES
    max_concurrent_packages,  \* self.max_concurrent_packages
    max_queued_packages,      \* maxsize of the three waiting queues
    shutdown_event,           \* self.shutdown_event.is_set()
    active_package_lock,      \* the thread holding self.active_package_lock
    active_packages,          \* keys of self.active_packages
    active_package_gauge,     \* metrics.active_package_gauge
    job_queue,                \* self.job_queue (the active job queue)
    transfer_queue,           \* self.transfer_queue
    sip_queue,                \* self.sip_queue
    dip_queue,                \* self.dip_queue
    executor_queue,           \* the executor's work queue (submitted, not started)
    futures,                  \* the future of each submitted job
    created,                  \* packages created so far
    thread,                   \* each thread's position and locals
    transfers,                \* models.Transfer.objects: the rows' primary keys
    sips,                     \* models.SIP.objects: the rows' primary keys
    jobs,                     \* models.Job.objects
    ingest,                   \* the packages whose stage is Stage.INGEST
    client,                   \* the caller of the server's functions
    unit_variables,           \* models.UnitVariable.objects
    file_objects,             \* models.File.objects
    filesystem,               \* the paths of the files on disk
    config,                   \* self.config of the Package whose methods are called
    current_path,             \* self._current_path of that Package
    returned,                 \* what the last call of one of its methods returned
    batch,                    \* the exit codes of the tasks of a job's batch
    exit_code                 \* the job's exit code, once its batch is complete

vars == <<max_concurrent_packages, max_queued_packages, shutdown_event,
          active_package_lock, active_packages, active_package_gauge, job_queue,
          transfer_queue, sip_queue, dip_queue, executor_queue, futures, created, thread,
          transfers, sips, jobs, ingest, client,
          unit_variables, file_objects, filesystem, config, current_path, returned,
          batch, exit_code>>

queue_vars == <<active_packages, active_package_gauge, job_queue, transfer_queue,
                sip_queue, dip_queue>>

\* The database, the packages' stage and the caller.
\* A Package object, the tables and the directory its methods read and write.
package_vars == <<unit_variables, file_objects, filesystem, config, current_path, returned,
                  batch, exit_code>>

status_vars == <<transfers, sips, jobs, ingest, client, package_vars>>

Main == "main"
Workers == {"w1", "w2"}
Threads == Workers \cup {Main}
\* The workers of a larger executor (max_workers = 3), and its threads.
PoolWorkers == Workers \cup {"w3"}
PoolThreads == PoolWorkers \cup {Main}
NoThread == "none"

Packages == 1..(IF NumPackages > NumPackagesOneWorker THEN NumPackages ELSE NumPackagesOneWorker)
\* The class of a package as _put_package_nowait tells it: a DIP, a SIP, or
\* anything else (Package itself, Transfer), which it queues with the transfers.
PackageTypes == {"DIP", "SIP", "Transfer"}

\* A Job: its package (uuid and class) and its place in the package's chain.
Job(p, ty, n) == [package |-> p, type |-> ty, seq |-> n]
\* None, as a job.run result or an unset local.
NoJob == Job(0, "None", 0)
\* The result of a future whose job.run raised: future.result() re-raises.
Raised == Job(0, "Raised", 0)
IsJob(j) == j.package \in Packages

JobKeys == Packages \X (1..MaxJobs)
Key(j) == <<j.package, j.seq>>
NoFuture == [submitted |-> FALSE, done |-> FALSE, result |-> NoJob, callbacks |-> <<>>]

\* What job.run of job j can return: nothing, the next job of the chain, or an error.
RunResults(j) ==
    {NoJob, Raised} \cup
    (IF j.seq < MaxJobs THEN {Job(j.package, j.type, j.seq + 1)} ELSE {})

\* A thread's position and locals: the operation it runs (trigger_workflow or a
\* callback), the job that operation is about (the job to schedule, the job
\* whose package completed, the job taken from a waiting queue), the
\* active_package_count it read, the waiting queue it tries next, and the
\* exception its last operation ended with.
Locals(pc) ==
    [pc |-> pc, op |-> "none", job |-> NoJob, count |-> 0, try |-> "none",
     raised |-> "none", left |-> "none"]

----------------------------------------------------------------------------
\* The database (a3m/main/models.py) and the caller of the server's functions

\* Primary keys.  A package's uuid is its SIP's key; its Transfer has a key of
\* its own.  NoId is None.
SipId(p) == p
TransferId(p) == 0 - p
NoId == 0

\* Text, as the sequence of its characters.
Text_failed == <<"f", "a", "i", "l", "e", "d">>
Text_reject == <<"r", "e", "j", "e", "c", "t">>
\* Values of Job.microservicegroup.
Group_Failed == <<"F", "a", "i", "l", "e", "d", " ", "t", "r", "a", "n", "s", "f", "e", "r">>
Group_Reject == <<"R", "e", "j", "e", "c", "t", " ", "S", "I", "P">>
Group_Store == <<"S", "t", "o", "r", "e", " ", "A", "I", "P">>
Group_Verify == <<"V", "e", "r", "i", "f", "y", " ", "S", "I", "P">>
Groups == {Group_Failed, Group_Reject, Group_Store, Group_Verify}
\* Values of Job.jobtype.
JobType_StoreAIP == <<"a", "3", "m", " ", "-", " ", "S", "t", "o", "r", "e", " ", "A", "I", "P">>
JobType_Move == <<"M", "o", "v", "e", " ", "S", "I", "P">>
JobTypes == {JobType_StoreAIP, JobType_Move}
\* None, as the job of a PackageStatus.
NoText == <<>>

\* str.lower
LowerChar(c) ==
    CASE c = "A" -> "a" [] c = "F" -> "f" [] c = "I" -> "i" [] c = "M" -> "m"
      [] c = "P" -> "p" [] c = "R" -> "r" [] c = "S" -> "s" [] c = "V" -> "v"
      [] OTHER -> c
Lower(text) == [i \in 1..Len(text) |-> LowerChar(text[i])]

\* sub in text
Contains(sub, text) ==
    \E i \in 0..(Len(text) - Len(sub)) : SubSeq(text, i + 1, i + Len(sub)) = sub

\* A row of models.Job.
JobRow(id, unit, jobtype, group, time, dec) ==
    [jobuuid |-> id, sipuuid |-> unit, jobtype |-> jobtype,
     microservicegroup |-> group, createdtime |-> time, createdtimedec |-> dec]
NoJobRow == JobRow(0, NoId, NoText, NoText, 0, 0)

\* PackageStatus: status, job and jobs (the jobs' ids), and what a call that
\* returns no PackageStatus returned or raised instead: the package of
\* create_package, or an exception.
Result(raised, package, status, job, joblist) ==
    [raised |-> raised, package |-> package, status |-> status, job |-> job,
     jobs |-> joblist]
NoResult == Result("none", 0, "none", NoText, <<>>)

\* The caller: the call it is in (or returned from), the call's arguments, the
\* locals of get_package_status, and what the call returned or raised.
Client(pc, op, name, url, id) ==
    [pc |-> pc, op |-> op, name |-> name, url |-> url, package_id |-> id,
     package |-> 0, job |-> NoJobRow, result |-> NoResult]

\* The fields of ProcessingConfig, one of each type: a bool, an int32 and an
\* enum.  A value is an integer; a bool is 0 or 1, as in Python.
ConfigFields == {"normalize", "aip_compression_level", "aip_compression_algorithm"}

FieldType(field) ==
    IF field = "normalize" THEN "bool"
    ELSE IF field = "aip_compression_level" THEN "int32"
    ELSE "enum"

Configs ==
    {c \in [ConfigFields -> {0, 1, 2, 9, 10}] :
        \A field \in ConfigFields :
            c[field] \in IF FieldType(field) = "bool" THEN {0, 1}
                         ELSE IF FieldType(field) = "int32" THEN {0, 9, 10}
                         ELSE {0, 2}}

\* a3m.server.processing.DEFAULT_PROCESSING_CONFIG
DEFAULT_PROCESSING_CONFIG ==
    [field \in ConfigFields |->
        IF FieldType(field) = "bool" THEN 1
        ELSE IF FieldType(field) = "int32" THEN 9
        ELSE 2]

\* The exit code of a job whose batch is not complete (None).
NoExitCode == 0 - 1000

\* What a method of the Package returned: the method, the package and the
\* stage it was in, the exception raised and the value.
MethodReturn(op, p, stage, raised, value) ==
    [op |-> op, package |-> p, stage |-> stage, raised |-> raised, value |-> value]

NoReturn == MethodReturn("none", NoId, "none", "none", <<>>)

Init ==
    /\ max_concurrent_packages \in 1..MaxConcurrent
    /\ max_queued_packages \in 1..MaxQueued
    /\ shutdown_event = FALSE
    /\ active_package_lock = NoThread
    /\ active_packages = {}
    /\ active_package_gauge = 0
    /\ job_queue = <<>>
    /\ transfer_queue = <<>>
    /\ sip_queue = <<>>
    /\ dip_queue = <<>>
    /\ executor_queue = <<>>
    /\ futures = [k \in JobKeys |-> NoFuture]
    /\ created = 0
    /\ thread = [t \in PoolThreads |-> Locals(IF t = Main THEN "work" ELSE "idle")]
    /\ transfers = {}
    /\ sips = {}
    /\ jobs = {}
    /\ ingest = {}
    /\ client = Client("idle", "none", <<>>, <<>>, NoId)
    /\ unit_variables = {}
    /\ file_objects = {}
    /\ filesystem = {}
    /\ config = DEFAULT_PROCESSING_CONFIG
    /\ current_path = <<>>
    /\ returned = NoReturn
    /\ batch = <<>>
    /\ exit_code = NoExitCode

----------------------------------------------------------------------------
\* queue.Queue

\* Faulty variant: a queue that takes one item more than its maxsize.
QueueFull_OffByOne(q, maxsize) == Len(q) > maxsize

QueueFull(q, maxsize) == Len(q) >= maxsize
QueuePut(q, j) == Append(q, j)
QueueGet(q) == Tail(q)

----------------------------------------------------------------------------
\* Returning from schedule_job, queue_next_job or a callback

\* Where a thread rests between operations: a worker waits for a work item, the
\* main thread is in the loop of work.
Rest(t) == IF t = Main THEN "work" ELSE "idle"

\* Faulty variant: the exception is not caught and ends the thread's loop.
AfterException_Propagates(t) == "aborted"

\* Where a thread goes on once an exception raised in a callback, or by
\* future.result() in one, is caught and logged: the future catches it
\* (Future._invoke_callbacks, add_done_callback), so the worker takes its next
\* work item and process_one_job returns to the loop of work.
AfterException(t) == Rest(t)

\* The thread's locals once the operation it runs has returned (exc = "none")
\* or raised exc: the callback left to run, if any, goes on (it is kept in the
\* locals only when its test of future.result() lets it go on), else a worker
\* is idle again and the main thread goes on with the processing loop.  An exception reaches the handler that logs it, the future's for a
\* callback and trigger_workflow_done_callback for trigger_workflow, with the
\* job of the failed operation.
Returned(t, exc) ==
    IF exc = "none"
    THEN IF thread[t].left = "package_completed_callback"
         THEN [Locals("deactivate_package") EXCEPT
                   !.op = "package_completed_callback", !.job = thread[t].job]
         ELSE Locals(Rest(t))
    ELSE [Locals("log_exception") EXCEPT
              !.op = thread[t].op, !.job = thread[t].job, !.raised = exc]

\* The main thread ran the callback inline, on a finished future, from
\* process_one_job: once that returns nothing refers to the future any more.
FuturesReturned(t) ==
    IF t = Main
    THEN [k \in JobKeys |-> IF futures[k].done THEN NoFuture ELSE futures[k]]
    ELSE futures

Return(t, exc) ==
    /\ thread' = [thread EXCEPT ![t] = Returned(t, exc)]
    /\ futures' = FuturesReturned(t)

\* LOGGER.exception("exception calling callback for %r", self), or
\* logger.warning("Exception detected: %s", err) in trigger_workflow_done_callback
log_exception(t) ==
    /\ thread[t].pc = "log_exception"
    /\ thread' = [thread EXCEPT ![t] = Locals(AfterException(t))]
    /\ UNCHANGED status_vars
    /\ UNCHANGED <<max_concurrent_packages, max_queued_packages, shutdown_event,
                   active_package_lock, queue_vars, executor_queue, futures, created>>

----------------------------------------------------------------------------
\* PackageQueue.schedule_job

\* Faulty variant: a test that never finds the event set.
ShutdownIsSet_Never == FALSE

\* if self.shutdown_event.is_set(): raise RuntimeError("Queue stopped.")
ShutdownIsSet == shutdown_event

schedule_job(t) ==
    /\ thread[t].pc = "schedule_job"
    /\ IF ShutdownIsSet
       THEN Return(t, "RuntimeError")
       ELSE /\ thread' = [thread EXCEPT ![t].pc = "schedule_job_locked"]
            /\ UNCHANGED futures
    /\ UNCHANGED status_vars
    /\ UNCHANGED <<max_concurrent_packages, max_queued_packages, shutdown_event,
                   active_package_lock, queue_vars, executor_queue, created>>

\* The class's waiting queue: isinstance(package, DIP), isinstance(package, SIP), else.
WaitingQueueOf(ty) ==
    IF ty = "DIP" THEN "dip" ELSE IF ty = "SIP" THEN "sip" ELSE "transfer"

WaitingQueue(name) ==
    IF name = "dip" THEN dip_queue ELSE IF name = "sip" THEN sip_queue ELSE transfer_queue

\* with self.active_package_lock: the package is active and the job goes to the
\* active job queue (a blocking put, made while the lock is held), or the number
\* of active packages is read.
schedule_job_locked(t) ==
    LET j == thread[t].job IN
    /\ thread[t].pc = "schedule_job_locked"
    /\ active_package_lock = NoThread
    /\ IF j.package \in active_packages
       THEN IF QueueFull(job_queue, max_concurrent_packages)
            THEN /\ active_package_lock' = t
                 /\ thread' = [thread EXCEPT ![t].pc = "job_queue_put"]
                 /\ UNCHANGED <<job_queue, futures>>
            ELSE /\ job_queue' = QueuePut(job_queue, j)
                 /\ Return(t, "none")
                 /\ UNCHANGED active_package_lock
       ELSE /\ thread' = [thread EXCEPT ![t].pc = "put_package_nowait",
                                        ![t].count = Cardinality(active_packages)]
            /\ UNCHANGED <<active_package_lock, job_queue, futures>>
    /\ UNCHANGED status_vars
    /\ UNCHANGED <<max_concurrent_packages, max_queued_packages, shutdown_event,
                   active_packages, active_package_gauge, transfer_queue, sip_queue, dip_queue,
                   executor_queue, created>>

\* self.job_queue.put(job, block=True), blocked on a full queue with the lock held.
job_queue_put(t) ==
    /\ thread[t].pc = "job_queue_put"
    /\ active_package_lock = t
    /\ ~QueueFull(job_queue, max_concurrent_packages)
    /\ job_queue' = QueuePut(job_queue, thread[t].job)
    /\ active_package_lock' = NoThread
    /\ Return(t, "none")
    /\ UNCHANGED status_vars
    /\ UNCHANGED <<max_concurrent_packages, max_queued_packages, shutdown_event,
                   active_packages, active_package_gauge, transfer_queue, sip_queue, dip_queue,
                   executor_queue, created>>

\* if active_package_count < self.max_concurrent_packages: self.queue_next_job()
HasCapacity(count) == count < max_concurrent_packages

\* Faulty variant: the SIP queue tried first.
FirstQueue_Sip == "sip"

\* The queue _get_package_job_nowait tries first, and the one it tries after
\* finding a queue empty ("none": all three were empty, it returns None).
FirstQueue == "dip"
NextQueue(name) ==
    IF name = "dip" THEN "sip" ELSE IF name = "sip" THEN "transfer" ELSE "none"

\* self._put_package_nowait(package, job), then the capacity test.
put_package_nowait(t) ==
    LET j == thread[t].job
        name == WaitingQueueOf(j.type)
    IN
    /\ thread[t].pc = "put_package_nowait"
    /\ IF QueueFull(WaitingQueue(name), max_queued_packages)
       THEN /\ UNCHANGED <<dip_queue, sip_queue, transfer_queue>>
            /\ Return(t, "Full")
       ELSE /\ dip_queue' = IF name = "dip" THEN QueuePut(dip_queue, j) ELSE dip_queue
            /\ sip_queue' = IF name = "sip" THEN QueuePut(sip_queue, j) ELSE sip_queue
            /\ transfer_queue' =
                   IF name = "transfer" THEN QueuePut(transfer_queue, j) ELSE transfer_queue
            /\ IF HasCapacity(thread[t].count)
               THEN /\ thread' = [thread EXCEPT ![t].pc = "get_package_job_nowait",
                                                ![t].job = NoJob,
                                                ![t].count = 0,
                                                ![t].try = FirstQueue]
                    /\ UNCHANGED futures
               ELSE Return(t, "none")
    /\ UNCHANGED status_vars
    /\ UNCHANGED <<max_concurrent_packages, max_queued_packages, shutdown_event,
                   active_package_lock, active_packages, active_package_gauge, job_queue,
                   executor_queue, created>>

----------------------------------------------------------------------------
\* PackageQueue.queue_next_job

\* One get_nowait of _get_package_job_nowait, on the queue thread[t].try.
get_package_job_nowait(t) ==
    LET name == thread[t].try
        q == WaitingQueue(name)
    IN
    /\ thread[t].pc = "get_package_job_nowait"
    /\ IF q # <<>>
       THEN /\ dip_queue' = IF name = "dip" THEN QueueGet(dip_queue) ELSE dip_queue
            /\ sip_queue' = IF name = "sip" THEN QueueGet(sip_queue) ELSE sip_queue
            /\ transfer_queue' =
                   IF name = "transfer" THEN QueueGet(transfer_queue) ELSE transfer_queue
            /\ thread' = [thread EXCEPT ![t].pc = "activate_package",
                                        ![t].job = Head(q),
                                        ![t].try = "none"]
            /\ UNCHANGED futures
       ELSE /\ UNCHANGED <<dip_queue, sip_queue, transfer_queue>>
            /\ IF NextQueue(name) = "none"
               THEN Return(t, "none")
               ELSE /\ thread' = [thread EXCEPT ![t].try = NextQueue(name)]
                    /\ UNCHANGED futures
    /\ UNCHANGED status_vars
    /\ UNCHANGED <<max_concurrent_packages, max_queued_packages, shutdown_event,
                   active_package_lock, active_packages, active_package_gauge, job_queue,
                   executor_queue, created>>

\* Faulty variant: an activation that records nothing.
ActivePackagesWith_Nothing(p) == active_packages

\* self.active_packages[package.uuid] = package
ActivePackagesWith(p) == active_packages \cup {p}

\* Faulty variant: a test that never finds the package.
InActivePackages_Never(p) == FALSE

\* package.uuid in self.active_packages, the test activate_package and
\* deactivate_package make with the lock held.
InActivePackages(p) == p \in active_packages

\* self.activate_package(package), as queue_next_job calls it: the package is
\* recorded and metrics.active_package_gauge.inc() is called, unless the package
\* is active already.
activate_package(t) ==
    /\ thread[t].pc = "activate_package"
    /\ active_package_lock = NoThread
    /\ active_packages' = ActivePackagesWith(thread[t].job.package)
    /\ active_package_gauge' = IF InActivePackages(thread[t].job.package)
                               THEN active_package_gauge
                               ELSE active_package_gauge + 1
    /\ thread' = [thread EXCEPT ![t].pc = "job_queue_put_nowait"]
    /\ UNCHANGED status_vars
    /\ UNCHANGED <<max_concurrent_packages, max_queued_packages, shutdown_event,
                   active_package_lock, job_queue, transfer_queue, sip_queue,
                   dip_queue, executor_queue, futures, created>>

\* self.job_queue.put_nowait(job): raises queue.Full on a full queue.
job_queue_put_nowait(t) ==
    /\ thread[t].pc = "job_queue_put_nowait"
    /\ IF QueueFull(job_queue, max_concurrent_packages)
       THEN /\ UNCHANGED job_queue
            /\ Return(t, "Full")
       ELSE /\ job_queue' = QueuePut(job_queue, thread[t].job)
            /\ Return(t, "none")
    /\ UNCHANGED status_vars
    /\ UNCHANGED <<max_concurrent_packages, max_queued_packages, shutdown_event,
                   active_package_lock, active_packages, active_package_gauge, transfer_queue, sip_queue,
                   dip_queue, executor_queue, created>>

----------------------------------------------------------------------------
\* PackageQueue._package_completed_callback, after its test of future.result()

\* self.deactivate_package(package), then self.queue_next_job()
deactivate_package(t) ==
    /\ thread[t].pc = "deactivate_package"
    /\ active_package_lock = NoThread
    /\ active_packages' = active_packages \ {thread[t].job.package}
    /\ active_package_gauge' = IF InActivePackages(thread[t].job.package)
                               THEN active_package_gauge - 1
                               ELSE active_package_gauge
    /\ thread' = [thread EXCEPT ![t].pc = "get_package_job_nowait",
                                ![t].job = NoJob,
                                ![t].try = FirstQueue]
    /\ UNCHANGED status_vars
    /\ UNCHANGED <<max_concurrent_packages, max_queued_packages, shutdown_event,
                   active_package_lock, job_queue, transfer_queue, sip_queue,
                   dip_queue, executor_queue, futures, created>>

----------------------------------------------------------------------------
\* Callbacks: the test each makes of future.result() before it does anything

\* _job_completed_callback: next_job = future.result(); if not next_job: return;
\* self.schedule_job(next_job).  TRUE when the callback goes on to schedule_job.
JobCallbackSchedules(result) == IsJob(result)

\* Faulty variant: a package callback that does not test future.result().
PackageCallbackDeactivates_Always(result) == TRUE

\* _package_completed_callback: if future.result() is not None: (warn and) return.
\* TRUE when the callback goes on to deactivate the package.
PackageCallbackDeactivates(result) == result = NoJob

\* The thread's locals as it runs the callbacks cbs, in their order, on a future
\* finished with result for job j: it stands at the first shared access the
\* callbacks make, or at rest when every callback ends at its test of
\* future.result() (by returning, or by the job's error re-raised and logged).
\* The package callback runs after the job callback has scheduled the next job.
RunCallbacks(t, cbs, j, result) ==
    IF \E i \in 1..Len(cbs) : cbs[i] = "job_completed_callback"
       /\ JobCallbackSchedules(result)
    THEN [Locals("schedule_job") EXCEPT
              !.op = "job_completed_callback", !.job = result,
              !.left = IF /\ \E i \in 1..Len(cbs) : cbs[i] = "package_completed_callback"
                          /\ PackageCallbackDeactivates(result)
                       THEN "package_completed_callback" ELSE "none"]
    ELSE IF \E i \in 1..Len(cbs) : cbs[i] = "package_completed_callback"
            /\ PackageCallbackDeactivates(result)
    THEN [Locals("deactivate_package") EXCEPT !.op = "package_completed_callback", !.job = j]
    ELSE IF result = Raised
    THEN Locals(AfterException(t))
    ELSE Locals(Rest(t))

----------------------------------------------------------------------------
\* The ThreadPoolExecutor and Package.create_package

\* The arguments a caller passes as name and url: nothing, or something.
Names == {<<>>, <<"a">>}
ValidNames == {name \in Names : name # <<>>}

\* Faulty variant: a test that takes any argument as given.
NotGiven_Never(text) == FALSE

\* if not name: raise ValueError(...); if not url: raise ValueError(...)
NotGiven(text) == text = <<>>

\* cls.create_package, for a class cls of packages: the two tests of the
\* arguments, then the Transfer and SIP rows (sip.transfer_id is set on the
\* object in memory and not saved), package = cls(...),
\* executor.submit(Package.trigger_workflow, package, ...) and return package.
create_package(ty, name, url) ==
    /\ client.pc \in {"idle", "returned"}
    /\ IF NotGiven(name) \/ NotGiven(url)
       THEN /\ client' = [Client("returned", "create_package", name, url, NoId)
                             EXCEPT !.result.raised = "ValueError"]
            /\ UNCHANGED <<created, transfers, sips, executor_queue>>
       ELSE /\ created' = created + 1
            /\ transfers' = transfers \cup {TransferId(created + 1)}
            /\ sips' = sips \cup {SipId(created + 1)}
            /\ executor_queue' = Append(executor_queue,
                   [fn |-> "trigger_workflow", job |-> Job(created + 1, ty, 1)])
            /\ client' = [Client("returned", "create_package", name, url, NoId)
                             EXCEPT !.result.package = created + 1]
    /\ UNCHANGED <<jobs, ingest>>
    /\ UNCHANGED package_vars
    /\ UNCHANGED <<max_concurrent_packages, max_queued_packages, shutdown_event,
                   active_package_lock, queue_vars, futures, thread>>

\* An idle worker takes the next work item: Package.trigger_workflow, which
\* builds the JobChain and calls schedule_job(next(job_chain)), or job.run.
worker_take(w) ==
    /\ thread[w].pc = "idle"
    /\ executor_queue # <<>>
    /\ executor_queue' = Tail(executor_queue)
    /\ LET item == Head(executor_queue) IN
       thread' = [thread EXCEPT ![w] =
           IF item.fn = "trigger_workflow"
           THEN [Locals("schedule_job") EXCEPT !.op = "trigger_workflow", !.job = item.job]
           ELSE [Locals("run") EXCEPT !.job = item.job]]
    /\ UNCHANGED status_vars
    /\ UNCHANGED <<max_concurrent_packages, max_queued_packages, shutdown_event,
                   active_package_lock, queue_vars, futures, created>>

\* job.run returns on the worker: the future is finished with its result and the
\* worker invokes the callbacks registered so far (Future._invoke_callbacks).
\* The future stays while process_one_job, which submitted it, refers to it.
job_run(w) ==
    LET j == thread[w].job
        f == futures[Key(j)]
    IN
    /\ thread[w].pc = "run"
    /\ \E r \in RunResults(j) :
          /\ thread' = [thread EXCEPT ![w] = RunCallbacks(w, f.callbacks, j, r)]
          /\ futures' = [futures EXCEPT ![Key(j)] =
                 IF thread[Main].job = j /\ thread[Main].op = "process_one_job"
                 THEN [submitted |-> TRUE, done |-> TRUE, result |-> r, callbacks |-> <<>>]
                 ELSE NoFuture]
    /\ UNCHANGED status_vars
    /\ UNCHANGED <<max_concurrent_packages, max_queued_packages, shutdown_event,
                   active_package_lock, queue_vars, executor_queue, created>>

----------------------------------------------------------------------------
\* The processing loop, on the main thread

\* while not self.shutdown_event.is_set(): self.process_one_job(timeout=1.0)
work ==
    /\ thread[Main].pc = "work"
    /\ thread' = [thread EXCEPT ![Main] =
           Locals(IF ShutdownIsSet THEN "done" ELSE "process_one_job")]
    /\ UNCHANGED status_vars
    /\ UNCHANGED <<max_concurrent_packages, max_queued_packages, shutdown_event,
                   active_package_lock, queue_vars, executor_queue, futures, created>>

\* Faulty variant: a get that leaves the job on the queue.
JobQueueGet_Peek(q) == q

\* What job_queue.get leaves on the queue.
JobQueueGet(q) == QueueGet(q)

\* job = self.job_queue.get(timeout=timeout), or queue.Empty after the timeout;
\* result = self.executor.submit(job.run)
process_one_job ==
    /\ thread[Main].pc = "process_one_job"
    /\ IF job_queue = <<>>
       THEN /\ thread' = [thread EXCEPT ![Main] = Locals("work")]
            /\ UNCHANGED <<job_queue, executor_queue, futures>>
       ELSE LET j == Head(job_queue) IN
            /\ job_queue' = JobQueueGet(job_queue)
            /\ executor_queue' = Append(executor_queue, [fn |-> "run", job |-> j])
            /\ futures' = [futures EXCEPT ![Key(j)] = [NoFuture EXCEPT !.submitted = TRUE]]
            /\ thread' = [thread EXCEPT ![Main] =
                   [Locals("add_job_callback") EXCEPT !.op = "process_one_job", !.job = j]]
    /\ UNCHANGED status_vars
    /\ UNCHANGED <<max_concurrent_packages, max_queued_packages, shutdown_event,
                   active_package_lock, active_packages, active_package_gauge, transfer_queue, sip_queue,
                   dip_queue, created>>

\* result.add_done_callback(self._job_completed_callback): registered on a future
\* that is not finished, run at once on this thread on one that is.
add_job_callback ==
    LET j == thread[Main].job
        f == futures[Key(j)]
    IN
    /\ thread[Main].pc = "add_job_callback"
    /\ IF f.done /\ JobCallbackSchedules(f.result)
       THEN /\ thread' = [thread EXCEPT ![Main] =
                   RunCallbacks(Main, <<"job_completed_callback">>, j, f.result)]
            /\ UNCHANGED futures
       ELSE /\ thread' = [thread EXCEPT ![Main].pc = "add_package_callback"]
            /\ futures' = [futures EXCEPT ![Key(j)].callbacks =
                   IF f.done THEN @ ELSE Append(@, "job_completed_callback")]
    /\ UNCHANGED status_vars
    /\ UNCHANGED <<max_concurrent_packages, max_queued_packages, shutdown_event,
                   active_package_lock, queue_vars, executor_queue, created>>

\* if job.link.is_terminal: result.add_done_callback(package_done_callback), the
\* callback registered on a future that is not finished and run at once on one
\* that is; then process_one_job returns.  The link's flag is read here.
add_package_callback ==
    LET j == thread[Main].job
        f == futures[Key(j)]
    IN
    /\ thread[Main].pc = "add_package_callback"
    /\ \E is_terminal \in BOOLEAN :
          IF is_terminal /\ ~f.done
          THEN /\ futures' = [futures EXCEPT ![Key(j)].callbacks =
                                  Append(@, "package_completed_callback")]
               /\ thread' = [thread EXCEPT ![Main] = Locals("work")]
          ELSE /\ thread' = [thread EXCEPT ![Main] =
                      RunCallbacks(Main,
                          IF is_terminal THEN <<"package_completed_callback">> ELSE <<>>,
                          j, f.result)]
               /\ futures' = [futures EXCEPT ![Key(j)] =
                      IF f.done /\ ~(is_terminal /\ PackageCallbackDeactivates(f.result))
                      THEN NoFuture ELSE f]
    /\ UNCHANGED status_vars
    /\ UNCHANGED <<max_concurrent_packages, max_queued_packages, shutdown_event,
                   active_package_lock, queue_vars, executor_queue, created>>

\* PackageQueue.stop: self.shutdown_event.set()
stop ==
    /\ ~shutdown_event
    /\ shutdown_event' = TRUE
    /\ UNCHANGED status_vars
    /\ UNCHANGED <<max_concurrent_packages, max_queued_packages,
                   active_package_lock, queue_vars, executor_queue, futures,
                   created, thread>>

----------------------------------------------------------------------------

\* One step of thread t inside schedule_job, queue_next_job or a callback.
queue_step(t) ==
    \/ schedule_job(t)
    \/ schedule_job_locked(t)
    \/ job_queue_put(t)
    \/ put_package_nowait(t)
    \/ get_package_job_nowait(t)
    \/ activate_package(t)
    \/ job_queue_put_nowait(t)
    \/ deactivate_package(t)
    \/ log_exception(t)

worker_step(w) ==
    \/ worker_take(w)
    \/ job_run(w)
    \/ queue_step(w)

main_step ==
    \/ work
    \/ process_one_job
    \/ add_job_callback
    \/ add_package_callback
    \/ queue_step(Main)

Next ==
    \/ created < NumPackages
       /\ \E ty \in PackageTypes, name \in ValidNames, url \in ValidNames :
             create_package(ty, name, url)
    \/ stop
    \/ main_step
    \/ \E w \in Workers : worker_step(w)

Spec == Init /\ [][Next]_vars

\* The scheduling of the threads is fair; job.run returns.  Nothing obliges a
\* client to create a package or anyone to call stop.
Fairness ==
    /\ WF_vars(main_step)
    /\ \A w \in Workers : WF_vars(worker_step(w))

LiveNext ==
    \/ created < NumPackagesLive
       /\ \E ty \in PackageTypes, name \in ValidNames, url \in ValidNames :
             create_package(ty, name, url)
    \/ stop
    \/ main_step
    \/ \E w \in Workers : worker_step(w)

LiveSpec == Init /\ [][LiveNext]_vars /\ Fairness

\* An executor with a single worker (max_workers = 1), in a server that is not
\* stopped.
OneWorker == CHOOSE w \in Workers : TRUE

OneWorkerNext ==
    \/ created < NumPackagesOneWorker
       /\ \E ty \in PackageTypes, name \in ValidNames, url \in ValidNames :
             create_package(ty, name, url)
    \/ main_step
    \/ worker_step(OneWorker)

OneWorkerSpec == Init /\ [][OneWorkerNext]_vars

----------------------------------------------------------------------------
\* get_package_status (a3m/server/packages.py)

\* package.subid: the SIP's key in the ingest stage, the Transfer's before.
Subid(p) == IF p \in ingest THEN SipId(p) ELSE TransferId(p)

\* Row a was created after row b, by createdtime and then createdtimedec.
Later(a, b) ==
    \/ a.createdtime > b.createdtime
    \/ a.createdtime = b.createdtime /\ a.createdtimedec > b.createdtimedec

\* get_latest_job(unit_id): the rows that
\* filter(sipuuid=unit_id).order_by("-createdtime", "-createdtimedec").first()
\* can return, None when no row has that sipuuid.
get_latest_job(unit_id) ==
    LET rows == {r \in jobs : r.sipuuid = unit_id} IN
    IF rows = {} THEN {NoJobRow} ELSE {r \in rows : \A o \in rows : ~Later(o, r)}

\* What reading sip.transfer_id of a row loaded from the database gives.  No
\* code saves the attribute create_package sets on its object, so a row that
\* has the column holds None; the SIP model of main/models.py declares no such
\* field, and with it the read raises AttributeError.
SipTransferId ==
    {[raised |-> "AttributeError", value |-> NoId], [raised |-> "none", value |-> NoId]}

\* The status of an inactive package whose latest job is job, or the exception
\* raised when it cannot be determined.
PackageStatusOf(job) ==
    IF Contains(Text_failed, Lower(job.microservicegroup)) THEN "FAILED"
    ELSE IF Contains(Text_reject, Lower(job.microservicegroup)) THEN "REJECTED"
    ELSE IF job.jobtype = JobType_StoreAIP THEN "COMPLETE"
    ELSE "Exception"

\* The orders in which filter(sipuuid__in=units).order_by("createdtime") can
\* yield its rows: rows of one createdtime come in any order.
JobsOrdered(units) ==
    LET rows == {r \in jobs : r.sipuuid \in units}
        n == Cardinality(rows)
    IN {seq \in [1..n -> rows] :
           /\ \A i, k \in 1..n : i # k => seq[i] # seq[k]
           /\ \A i, k \in 1..n : i < k => seq[i].createdtime <= seq[k].createdtime}

\* The caller's state once its call has ended with exception exc.
Raises(exc) ==
    [Client("returned", client.op, client.name, client.url, client.package_id)
        EXCEPT !.result.raised = exc]

\* Faulty variant: a lookup that finds a row for any key.
SIP_objects_get_Any(pk) == TRUE

\* models.SIP.objects.get(pk=package_id): TRUE when a row has that key, FALSE
\* when the lookup raises models.SIP.DoesNotExist.
SIP_objects_get(pk) == pk \in sips

\* A call of get_package_status(package_queue, package_id):
\* sip = models.SIP.objects.get(pk=package_id), PackageNotFoundError when no
\* row has that key.
get_package_status(package_id) ==
    /\ client.pc \in {"idle", "returned"}
    /\ client' =
          LET call == Client("active_packages_get", "get_package_status", <<>>, <<>>,
                             package_id)
          IN IF SIP_objects_get(package_id)
             THEN call
             ELSE [call EXCEPT !.pc = "returned", !.result.raised = "PackageNotFoundError"]
    /\ UNCHANGED <<transfers, sips, jobs, ingest>>
    /\ UNCHANGED package_vars
    /\ UNCHANGED <<max_concurrent_packages, max_queued_packages, shutdown_event,
                   active_package_lock, queue_vars, executor_queue, futures,
                   created, thread>>

\* package = package_queue.active_packages.get(package_id): the dict is read as
\* it is, active_package_lock is not taken.
active_packages_get ==
    /\ client.pc = "active_packages_get"
    /\ client' =
          IF client.package_id \in active_packages
          THEN [client EXCEPT !.pc = "get_latest_job_subid", !.package = client.package_id]
          ELSE [client EXCEPT !.pc = "get_latest_job"]
    /\ UNCHANGED <<transfers, sips, jobs, ingest>>
    /\ UNCHANGED package_vars
    /\ UNCHANGED <<max_concurrent_packages, max_queued_packages, shutdown_event,
                   active_package_lock, queue_vars, executor_queue, futures,
                   created, thread>>

\* if package: job = get_latest_job(package.subid);
\* return PackageStatus(status=PROCESSING, job=job.jobtype if job else None)
get_latest_job_subid ==
    /\ client.pc = "get_latest_job_subid"
    /\ \E job \in get_latest_job(Subid(client.package)) :
          client' = [Raises("none") EXCEPT !.result.status = "PROCESSING",
                                           !.result.job = job.jobtype]
    /\ UNCHANGED <<transfers, sips, jobs, ingest>>
    /\ UNCHANGED package_vars
    /\ UNCHANGED <<max_concurrent_packages, max_queued_packages, shutdown_event,
                   active_package_lock, queue_vars, executor_queue, futures,
                   created, thread>>

\* The inactive package: job = get_latest_job(package_id); with no job,
\* sip.transfer_id is read, an exception raised when it is None, and the latest
\* job of the transfer looked up (PROCESSING when there is none); then the
\* status is told from the job and PackageStatus(status, job.microservicegroup)
\* built.
get_latest_job_inactive ==
    LET classify(job) ==
            IF PackageStatusOf(job) = "Exception"
            THEN Raises("Exception")
            ELSE [client EXCEPT !.pc = "get_jobs", !.job = job,
                                !.result.status = PackageStatusOf(job),
                                !.result.job = job.microservicegroup]
    IN
    /\ client.pc = "get_latest_job"
    /\ \E job \in get_latest_job(client.package_id) :
          IF job # NoJobRow
          THEN client' = classify(job)
          ELSE \E transfer_id \in SipTransferId :
                  IF transfer_id.raised # "none"
                  THEN client' = Raises(transfer_id.raised)
                  ELSE IF transfer_id.value = NoId
                  THEN client' = Raises("Exception")
                  ELSE \E transfer_job \in get_latest_job(transfer_id.value) :
                          client' = IF transfer_job = NoJobRow
                                    THEN [Raises("none") EXCEPT !.result.status = "PROCESSING"]
                                    ELSE classify(transfer_job)
    /\ UNCHANGED <<transfers, sips, jobs, ingest>>
    /\ UNCHANGED package_vars
    /\ UNCHANGED <<max_concurrent_packages, max_queued_packages, shutdown_event,
                   active_package_lock, queue_vars, executor_queue, futures,
                   created, thread>>

\* for item in models.Job.objects.filter(sipuuid__in=(sip.pk, sip.transfer_id))
\*     .order_by("createdtime").values(...): package_status.jobs.append(...);
\* return package_status
get_jobs ==
    /\ client.pc = "get_jobs"
    /\ \E transfer_id \in SipTransferId :
          IF transfer_id.raised # "none"
          THEN client' = Raises(transfer_id.raised)
          ELSE \E seq \in JobsOrdered({client.package_id, transfer_id.value}) :
                  client' = [Raises("none") EXCEPT
                                !.result.status = client.result.status,
                                !.result.job = client.result.job,
                                !.result.jobs = [i \in DOMAIN seq |-> seq[i].jobuuid]]
    /\ UNCHANGED <<transfers, sips, jobs, ingest>>
    /\ UNCHANGED package_vars
    /\ UNCHANGED <<max_concurrent_packages, max_queued_packages, shutdown_event,
                   active_package_lock, queue_vars, executor_queue, futures,
                   created, thread>>

\* A row of models.Job is saved, for a unit (the transfer or the SIP) of a
\* package that exists, by whatever runs the package's jobs.
Job_save(unit, jobtype, group, time, dec) ==
    /\ unit \in transfers \cup sips
    /\ jobs' = jobs \cup {JobRow(Cardinality(jobs) + 1, unit, jobtype, group, time, dec)}
    /\ UNCHANGED <<transfers, sips, ingest, client>>
    /\ UNCHANGED package_vars
    /\ UNCHANGED <<max_concurrent_packages, max_queued_packages, shutdown_event,
                   active_package_lock, queue_vars, executor_queue, futures,
                   created, thread>>

\* package.start_ingest(): self.stage = Stage.INGEST
StageIngest_Toggle(p) == IF p \in ingest THEN ingest \ {p} ELSE ingest \cup {p}

\* self.stage = Stage.INGEST
StageIngest(p) == ingest \cup {p}

start_ingest(p) ==
    /\ p \in 1..created
    /\ ingest' = StageIngest(p)
    /\ UNCHANGED <<transfers, sips, jobs, client>>
    /\ UNCHANGED package_vars
    /\ UNCHANGED <<max_concurrent_packages, max_queued_packages, shutdown_event,
                   active_package_lock, queue_vars, executor_queue, futures,
                   created, thread>>

\* The server as get_package_status and its caller find it at some moment of
\* its life: the packages created so far, and which of them are active.  None
\* of their jobs is recorded yet.
StatusInit ==
    /\ max_concurrent_packages \in 1..MaxConcurrent
    /\ max_queued_packages \in 1..MaxQueued
    /\ shutdown_event = FALSE
    /\ active_package_lock = NoThread
    /\ created \in 0..NumPackagesStatus
    /\ active_packages \in SUBSET (1..created)
    /\ active_package_gauge = Cardinality(active_packages)
    /\ job_queue = <<>>
    /\ transfer_queue = <<>>
    /\ sip_queue = <<>>
    /\ dip_queue = <<>>
    /\ executor_queue = <<>>
    /\ futures = [k \in JobKeys |-> NoFuture]
    /\ thread = [t \in PoolThreads |-> Locals(IF t = Main THEN "work" ELSE "idle")]
    /\ transfers = {TransferId(p) : p \in 1..created}
    /\ sips = {SipId(p) : p \in 1..created}
    /\ jobs = {}
    /\ ingest = {}
    /\ client = Client("idle", "none", <<>>, <<>>, NoId)
    /\ unit_variables = {}
    /\ file_objects = {}
    /\ filesystem = {}
    /\ config = DEFAULT_PROCESSING_CONFIG
    /\ current_path = <<>>
    /\ returned = NoReturn
    /\ batch = <<>>
    /\ exit_code = NoExitCode

\* The callers and the database: packages of class Package are created (with
\* any arguments), the packages' jobs are recorded and their status is read,
\* for keys with and without a SIP row.
StatusNext ==
    \/ created < NumPackagesStatus
       /\ \E name \in Names, url \in Names : create_package("Transfer", name, url)
    \/ \E package_id \in 1..(NumPackagesStatus + 1) : get_package_status(package_id)
    \/ active_packages_get
    \/ get_latest_job_subid
    \/ get_latest_job_inactive
    \/ get_jobs
    \/ Cardinality(jobs) < MaxJobRows
       /\ \E unit \in transfers \cup sips, jobtype \in JobTypes, group \in Groups,
             time \in 1..MaxTime, dec \in 0..MaxTimeDec :
             Job_save(unit, jobtype, group, time, dec)
    \/ \E p \in Packages : start_ingest(p)

StatusSpec == StatusInit /\ [][StatusNext]_vars

\* An executor with three workers, in a server that is not stopped and whose
\* packages are all of class Package.
PoolNext ==
    \/ created < NumPackagesPool
       /\ \E name \in ValidNames, url \in ValidNames : create_package("Transfer", name, url)
    \/ main_step
    \/ \E w \in PoolWorkers : worker_step(w)

PoolSpec == Init /\ [][PoolNext]_vars

\* The server running its packages while a caller reads their status, before
\* any job is recorded.
ReadNext ==
    \/ created < NumPackagesRead
       /\ \E name \in ValidNames, url \in ValidNames : create_package("Transfer", name, url)
    \/ \E package_id \in 1..NumPackagesRead : get_package_status(package_id)
    \/ active_packages_get
    \/ get_latest_job_subid
    \/ get_latest_job_inactive
    \/ main_step
    \/ \E w \in Workers : worker_step(w)

ReadSpec == Init /\ [][ReadNext]_vars

----------------------------------------------------------------------------
\* The methods of Package (a3m/server/packages.py)

\* self.stage
StageOf(p) == IF p \in ingest THEN "INGEST" ELSE "TRANSFER"

Uuid_Subid(p) == Subid(p)

\* Package.uuid
Uuid(p) == SipId(p)

\* Package.unit_variable_type
unit_variable_type(p) == IF p \in ingest THEN "SIP" ELSE "Transfer"

\* Package.replacement_path_string
replacement_path_string(p) ==
    IF p \in ingest THEN "%SIPDirectory%" ELSE "%transferDirectory%"

\* The queue's threads and the tables of get_package_status, which no
\* method of Package touches.
server_vars == <<max_concurrent_packages, max_queued_packages, shutdown_event,
                 active_package_lock, queue_vars, executor_queue, futures,
                 created, thread, transfers, sips, jobs, client, batch, exit_code>>

\* A caller reads package.uuid.
Package_uuid(p) ==
    /\ p \in 1..created
    /\ returned' = MethodReturn("uuid", p, StageOf(p), "none", Uuid(p))
    /\ UNCHANGED <<ingest, unit_variables, file_objects, filesystem, config, current_path>>
    /\ UNCHANGED server_vars

\* A caller reads package.subid.
Package_subid(p) ==
    /\ p \in 1..created
    /\ returned' = MethodReturn("subid", p, StageOf(p), "none", Subid(p))
    /\ UNCHANGED <<ingest, unit_variables, file_objects, filesystem, config, current_path>>
    /\ UNCHANGED server_vars

\* Python values and their text.  A dict is the sequence of its items in
\* insertion order, each item a pair <<key, value>> of strings; a text is a
\* sequence of tokens.
Dicts == {<<>>} \cup {<< <<k, v>> >> : k \in {"k"}, v \in {"v1", "v2"}}

Punctuation == {"'", "{", "}", "[", "]", ":", ","}

\* The items of a dict in its text, each str as its repr.
RECURSIVE StrItems(_)
StrItems(items) ==
    IF items = <<>> THEN <<>>
    ELSE <<"'", items[1][1], "'", ":", "'", items[1][2], "'">>
         \o (IF Len(items) > 1 THEN <<",">> \o StrItems(Tail(items)) ELSE <<>>)

\* str of a dict
Str(d) == <<"{">> \o StrItems(d) \o <<"}">>

\* dict[key] = value: the key keeps its place when it is already there.
SetItem(items, key, value) ==
    IF \E i \in 1..Len(items) : items[i][1] = key
    THEN [i \in 1..Len(items) |-> IF items[i][1] = key THEN <<key, value>> ELSE items[i]]
    ELSE Append(items, <<key, value>>)

\* The items of a dict display, parsed from the tokens between its braces.
RECURSIVE ParseItems(_, _)
ParseItems(tokens, items) ==
    IF tokens = <<>> THEN [ok |-> TRUE, items |-> items]
    ELSE IF /\ Len(tokens) >= 7
            /\ tokens[1] = "'" /\ tokens[3] = "'" /\ tokens[4] = ":"
            /\ tokens[5] = "'" /\ tokens[7] = "'"
            /\ tokens[2] \notin Punctuation /\ tokens[6] \notin Punctuation
         THEN LET rest == SubSeq(tokens, 8, Len(tokens))
                  more == SetItem(items, tokens[2], tokens[6])
              IN  IF rest = <<>> THEN [ok |-> TRUE, items |-> more]
                  ELSE IF rest[1] = "," THEN ParseItems(Tail(rest), more)
                  ELSE [ok |-> FALSE, items |-> <<>>]
         ELSE [ok |-> FALSE, items |-> <<>>]

\* What an evaluation gives: the exception raised, or the value as its type
\* and, for a dict, its items.
Evaluated(raised, type, items) == [raised |-> raised, type |-> type, items |-> items]

\* ast.literal_eval
literal_eval(text) ==
    IF text = <<>> THEN Evaluated("SyntaxError", "none", <<>>)
    ELSE IF text[1] = "{" /\ text[Len(text)] = "}" /\ Len(text) >= 2
         THEN LET parsed == ParseItems(SubSeq(text, 2, Len(text) - 1), <<>>)
              IN  IF parsed.ok THEN Evaluated("none", "dict", parsed.items)
                  ELSE Evaluated("SyntaxError", "none", <<>>)
    ELSE IF text = <<"[", "]">> THEN Evaluated("none", "list", <<>>)
    ELSE IF Len(text) = 1 /\ text[1] \notin Punctuation
         THEN Evaluated("ValueError", "none", <<>>)
    ELSE Evaluated("SyntaxError", "none", <<>>)

\* The values a client script may store: the text of a dict, of a list, a bare
\* name and the empty text.
TextValues == {<<>>, <<"[", "]">>, <<"x">>} \cup {Str(d) : d \in Dicts}

VariableNames == {"replacementDict", "activeAgent"}

\* objects.update_or_create(unittype, unituuid, variable, defaults)
update_or_create(unittype, unituuid, variable, variablevalue) ==
    LET matching == {row \in unit_variables :
                        /\ row.unittype = unittype
                        /\ row.unituuid = unituuid
                        /\ row.variable = variable}
    IN  (unit_variables \ matching)
            \cup {[unittype |-> unittype, unituuid |-> unituuid,
                   variable |-> variable, variablevalue |-> variablevalue]}

\* A client script stores a unit variable.
update_variable(unit_type, unit_uuid, variable, value) ==
    /\ unit_variables' = update_or_create(unit_type, unit_uuid, variable, value)
    /\ UNCHANGED <<ingest, file_objects, filesystem, config, current_path, returned>>
    /\ UNCHANGED server_vars

\* Package.set_variable(key, value, chain_link_id), value a dict
set_variable(p, key, value) ==
    /\ p \in 1..created
    /\ unit_variables' =
           update_or_create(unit_variable_type(p), Uuid(p), key,
                            IF value = <<>> THEN <<>> ELSE Str(value))
    /\ returned' = MethodReturn("set_variable", p, StageOf(p), "none",
                                [key |-> key, value |-> value])
    /\ UNCHANGED <<ingest, file_objects, filesystem, config, current_path>>
    /\ UNCHANGED server_vars

\* The orders in which a query may return the elements of a set.
Orders(S) ==
    {order \in [1..Cardinality(S) -> S] : \A x \in S : \E i \in DOMAIN order : order[i] = x}

\* PackageContext.update(mapping)
RECURSIVE ContextUpdate(_, _)
ContextUpdate(data, items) ==
    IF items = <<>> THEN data
    ELSE ContextUpdate(SetItem(data, items[1][1], items[1][2]), Tail(items))

\* The loop of PackageContext.load_from_db over the values in the order the
\* query returned them: the exception raised and the items loaded.
RECURSIVE LoadValues(_, _)
LoadValues(values, data) ==
    IF values = <<>> THEN Evaluated("none", "PackageContext", data)
    ELSE LET unit_var == literal_eval(values[1])
         IN  IF unit_var.raised \in {"ValueError", "SyntaxError"}
             THEN LoadValues(Tail(values), data)
             ELSE IF unit_var.type # "dict"
             THEN Evaluated("AttributeError", "PackageContext", data)
             ELSE LoadValues(Tail(values), ContextUpdate(data, unit_var.items))

\* PackageContext.load_from_db(uuid): the contexts it may return, one for
\* each order of the distinct values of the unit's replacementDict variables.
load_from_db(uuid) ==
    LET rows == {row \in unit_variables :
                    row.unituuid = uuid /\ row.variable = "replacementDict"}
    IN  {LoadValues(order, <<>>) : order \in Orders({row.variablevalue : row \in rows})}

\* Package.context
context(p) ==
    /\ p \in 1..created
    /\ \E loaded \in load_from_db(Subid(p)) :
          returned' = MethodReturn("context", p, StageOf(p), loaded.raised, loaded.items)
    /\ UNCHANGED <<ingest, unit_variables, file_objects, filesystem, config, current_path>>
    /\ UNCHANGED server_vars

\* Paths are texts whose tokens are "/", the names of files and directories
\* and the placeholders; a file on disk is the sequence of the names that
\* lead to it from the root.
SHARED_DIRECTORY == <<"/", "sh", "/">>
TransferDirectory == <<"/", "t", "/">>

\* The paths a unit's row may hold: Transfer.currentlocation, SIP.currentpath.
UnitPaths == {TransferDirectory, <<"%sharedPath%", "s">>}

\* The files there may be on disk.
DiskFiles == {<<"t", "a">>, <<"t", "d", "b">>, <<"sh", "s", "a">>}

\* File.currentlocation
Locations ==
    {<<"%transferDirectory%", "a">>, <<"%SIPDirectory%", "a">>,
     <<"%transferDirectory%", "d", "/", "b">>}

\* None and the subdirectories files() is asked for.
FilterSubdirs == {<<>>, <<"d", "/">>}

\* str.replace(old, new), old one token
RECURSIVE Replace(_, _, _)
Replace(text, old, new) ==
    IF text = <<>> THEN <<>>
    ELSE (IF text[1] = old THEN new ELSE <<text[1]>>) \o Replace(Tail(text), old, new)

\* os.path.join(a, b), b not absolute
Join(a, b) ==
    IF a = <<>> THEN b
    ELSE IF a[Len(a)] = "/" THEN a \o b
    ELSE a \o <<"/">> \o b

\* The names of a path, without its separators.
RECURSIVE Components(_)
Components(path) ==
    IF path = <<>> THEN <<>>
    ELSE IF path[1] = "/" THEN Components(Tail(path))
    ELSE <<path[1]>> \o Components(Tail(path))

IsPrefix(a, b) == Len(a) <= Len(b) /\ SubSeq(b, 1, Len(a)) = a

\* Faulty variant: every path is taken to exist.
Exists_Always(path) == TRUE

\* os.path.exists(path): a file, or a directory that holds one.
Exists(path) ==
    /\ path # <<>>
    /\ path[1] = "/"
    /\ \E f \in filesystem : IsPrefix(Components(path), f)

\* The path os.walk and os.path.join build for the file that lies names
\* below the directory top.
RECURSIVE WalkPath(_, _)
WalkPath(top, names) ==
    IF names = <<>> THEN top
    ELSE WalkPath(Join(top, <<names[1]>>), Tail(names))

\* for basedir, subdirs, files in os.walk(start_path): the paths of the files
Walk(start_path) ==
    IF start_path = <<>> \/ start_path[1] # "/" THEN {}
    ELSE {WalkPath(start_path, SubSeq(f, Len(Components(start_path)) + 1, Len(f))) :
             f \in {g \in filesystem :
                       /\ IsPrefix(Components(start_path), g)
                       /\ Len(g) > Len(Components(start_path))}}

\* A client script records a file of a unit: the row with this key is
\* written.
File_save(uuid, transfer_id, sip_id, currentlocation) ==
    /\ file_objects' = {row \in file_objects : row.uuid # uuid}
                           \cup {[uuid |-> uuid, transfer_id |-> transfer_id,
                                  sip_id |-> sip_id,
                                  currentlocation |-> currentlocation]}
    /\ UNCHANGED <<ingest, unit_variables, filesystem, config, current_path, returned>>
    /\ UNCHANGED server_vars

\* A client script writes or removes a file of the working directory.
write_file(f) ==
    /\ filesystem' = IF f \in filesystem THEN filesystem \ {f} ELSE filesystem \cup {f}
    /\ UNCHANGED <<ingest, unit_variables, file_objects, config, current_path, returned>>
    /\ UNCHANGED server_vars

\* Package.base_queryset
base_queryset(p) ==
    IF p \in ingest
    THEN {row \in file_objects : row.sip_id = SipId(p)}
    ELSE {row \in file_objects : row.transfer_id = TransferId(p)}

\* get_file_replacement_mapping(file_obj, unit_directory).get("%inputFile%")
InputFile(file_obj, unit_directory) ==
    Replace(Replace(file_obj.currentlocation, "%SIPDirectory%", unit_directory),
            "%transferDirectory%", unit_directory)

\* Package.files(filter_subdir): the entries one iteration yields, each with
\* its %relativeLocation% and %fileUUID%; first the rows of the catalog whose
\* file exists, then the files of the walk not returned already.
FilesYielded(p, filter_subdir) ==
    LET filter_path == <<replacement_path_string(p)>> \o filter_subdir
        queryset == IF filter_subdir # <<>>
                    THEN {row \in base_queryset(p) :
                             IsPrefix(filter_path, row.currentlocation)}
                    ELSE base_queryset(p)
        start_path == IF filter_subdir # <<>> THEN current_path \o filter_subdir
                      ELSE current_path
        from_catalog ==
            {[relativeLocation |-> InputFile(row, current_path), fileUUID |-> row.uuid] :
                row \in {r \in queryset : Exists(InputFile(r, current_path))}}
        files_returned_already == {entry.relativeLocation : entry \in from_catalog}
    IN  from_catalog
            \cup {[relativeLocation |-> file_path, fileUUID |-> "None"] :
                     file_path \in Walk(start_path) \ files_returned_already}

\* A caller iterates over package.files(filter_subdir) to its end.
files(p, filter_subdir) ==
    /\ p \in 1..created
    /\ returned' = MethodReturn("files", p, StageOf(p), "none", FilesYielded(p, filter_subdir))
    /\ UNCHANGED <<ingest, unit_variables, file_objects, filesystem, config, current_path>>
    /\ UNCHANGED server_vars

\* gen = package.files(filter_subdir): the generator is created, no statement
\* of the body has run.  The caller holds it with the entries it has taken.
Package_files(p, filter_subdir) ==
    /\ p \in 1..created
    /\ returned' = MethodReturn("files()", p, StageOf(p), "none",
                       [filter_subdir |-> filter_subdir, phase |-> "catalog",
                        yielded |-> <<>>])
    /\ UNCHANGED <<ingest, unit_variables, file_objects, filesystem, config, current_path>>
    /\ UNCHANGED server_vars

\* next(gen): the body runs to its next yield.  The loop over the queryset
\* skips the rows whose file does not exist and yields the next that has one,
\* in the order the database gives; when no row is left the walk yields the
\* next path that is not in files_returned_already, in the order of os.walk;
\* when none is left the generator is exhausted (StopIteration).
files_next(p) ==
    LET gen == returned.value
        y == gen.yielded
        filter_path == <<replacement_path_string(p)>> \o gen.filter_subdir
        queryset == IF gen.filter_subdir # <<>>
                    THEN {row \in base_queryset(p) :
                             IsPrefix(filter_path, row.currentlocation)}
                    ELSE base_queryset(p)
        start_path == IF gen.filter_subdir # <<>> THEN current_path \o gen.filter_subdir
                      ELSE current_path
        rows_left == {row \in queryset :
                         /\ Exists(InputFile(row, current_path))
                         /\ \A i \in 1..Len(y) : y[i].fileUUID # row.uuid}
        files_returned_already ==
            {y[i].relativeLocation : i \in {k \in 1..Len(y) : y[k].fileUUID # "None"}}
        walked == {y[i].relativeLocation : i \in {k \in 1..Len(y) : y[k].fileUUID = "None"}}
        paths_left == (Walk(start_path) \ files_returned_already) \ walked
        Yield(entry, phase) ==
            returned' = [returned EXCEPT !.value =
                            [gen EXCEPT !.phase = phase, !.yielded = Append(y, entry)]]
    IN
    /\ returned.op = "files()"
    /\ returned.package = p
    /\ gen.phase # "done"
    /\ IF gen.phase = "catalog" /\ rows_left # {}
       THEN \E row \in rows_left :
               Yield([relativeLocation |-> InputFile(row, current_path),
                      fileUUID |-> row.uuid], "catalog")
       ELSE IF paths_left # {}
       THEN \E file_path \in paths_left :
               Yield([relativeLocation |-> file_path, fileUUID |-> "None"], "walk")
       ELSE returned' = [returned EXCEPT !.value.phase = "done"]
    /\ UNCHANGED <<ingest, unit_variables, file_objects, filesystem, config, current_path>>
    /\ UNCHANGED server_vars

\* Package.reload(), the unit's row holding path; a SIP that has not been
\* started has no path (None).
reload(p, path) ==
    /\ p \in 1..created
    /\ IF p \in ingest /\ path = <<>>
       THEN /\ returned' = MethodReturn("reload", p, StageOf(p), "AttributeError", <<>>)
            /\ UNCHANGED current_path
       ELSE /\ current_path' = Replace(path, "%sharedPath%", SHARED_DIRECTORY)
            /\ returned' = MethodReturn("reload", p, StageOf(p), "none", <<>>)
    /\ UNCHANGED <<ingest, unit_variables, file_objects, filesystem, config>>
    /\ UNCHANGED server_vars

\* str of an int: its sign and its decimal digits.
RECURSIVE StrInt(_)
StrInt(n) ==
    IF n < 0 THEN <<"-">> \o StrInt(0 - n)
    ELSE IF n < 10 THEN <<(<<"0", "1", "2", "3", "4", "5", "6", "7", "8", "9">>)[n + 1]>>
    ELSE StrInt(n \div 10) \o StrInt(n % 10)

\* str(getattr(self.config, name)): of a bool True or False, of an int32 and
\* of an enum the number.
StrField(field, value) ==
    IF FieldType(field) = "bool"
    THEN (IF value # 0 THEN <<"True">> ELSE <<"False">>)
    ELSE StrInt(value)

\* None, for the config that create_package was not given.
NoConfig == [field \in ConfigFields |-> 0 - 1]

PrepareConfig_Defaults(provided) == DEFAULT_PROCESSING_CONFIG

\* Package._prepare_config(provided)
PrepareConfig(provided) ==
    IF provided # NoConfig
    THEN [field \in ConfigFields |-> provided[field]]
    ELSE DEFAULT_PROCESSING_CONFIG

\* dict.update(other)
DictUpdate(mapping, other) ==
    [key \in DOMAIN mapping \cup DOMAIN other |->
        IF key \in DOMAIN other THEN other[key] ELSE mapping[key]]

\* The tokens of the processing config: %config:<name>% for every field.
ConfigTokens(c) ==
    [key \in {<<"%config:", field, "%">> : field \in ConfigFields} |->
        LET field == key[2] IN StrField(field, c[field])]

\* Package.get_replacement_mapping(), without the entries of the settings
\* and of the package's name, URL and AIP file name.
ReplacementMapping(p) ==
    LET unit == [key \in {<<"%SIPUUID%">>, <<"%TransferUUID%">>, <<"%SIPLogsDirectory%">>,
                          <<"%SIPObjectsDirectory%">>, <<"%SIPDirectory%">>} |->
                    IF key = <<"%SIPUUID%">> THEN StrInt(SipId(p))
                    ELSE IF key = <<"%TransferUUID%">> THEN StrInt(TransferId(p))
                    ELSE IF key = <<"%SIPLogsDirectory%">>
                         THEN Join(Join(current_path, <<"logs">>), <<>>)
                    ELSE IF key = <<"%SIPObjectsDirectory%">>
                         THEN Join(Join(current_path, <<"objects">>), <<>>)
                    ELSE current_path]
        staged == IF p \in ingest
                  THEN [key \in {<<"%unitType%">>} |-> <<unit_variable_type(p)>>]
                  ELSE [key \in {<<replacement_path_string(p)>>, <<"%unitType%">>} |->
                           IF key = <<"%unitType%">> THEN <<unit_variable_type(p)>>
                           ELSE current_path]
    IN  DictUpdate(DictUpdate(unit, ConfigTokens(config)), staged)

get_replacement_mapping(p) ==
    /\ p \in 1..created
    /\ returned' = MethodReturn("get_replacement_mapping", p, StageOf(p), "none",
                                ReplacementMapping(p))
    /\ UNCHANGED <<ingest, unit_variables, file_objects, filesystem, config, current_path>>
    /\ UNCHANGED server_vars

\* Package.__init__(name, url, config, transfer, sip), after create_package
\* made the rows of the first package; the queue is the one of Init.
Package_init(provided) ==
    /\ max_concurrent_packages \in 1..MaxConcurrent
    /\ max_queued_packages \in 1..MaxQueued
    /\ shutdown_event = FALSE
    /\ active_package_lock = NoThread
    /\ created = 1
    /\ active_packages = {}
    /\ active_package_gauge = 0
    /\ job_queue = <<>>
    /\ transfer_queue = <<>>
    /\ sip_queue = <<>>
    /\ dip_queue = <<>>
    /\ executor_queue = <<>>
    /\ futures = [k \in JobKeys |-> NoFuture]
    /\ thread = [t \in PoolThreads |-> Locals(IF t = Main THEN "work" ELSE "idle")]
    /\ transfers = {TransferId(1)}
    /\ sips = {SipId(1)}
    /\ jobs = {}
    /\ client = Client("idle", "none", <<>>, <<>>, NoId)
    /\ unit_variables = {}
    /\ file_objects = {}
    /\ filesystem = {}
    /\ config = PrepareConfig(provided)
    /\ ingest = {}
    /\ current_path = TransferDirectory
    /\ returned = MethodReturn("__init__", 1, "TRANSFER", "none", provided)
    /\ batch = <<>>
    /\ exit_code = NoExitCode

\* One package and the callers of its methods: every method, in both stages.
PackageNext ==
    \/ \E p \in 1..created : start_ingest(p)
    \/ \E p \in 1..created, path \in UnitPaths \cup {<<>>} : reload(p, path)
    \/ \E p \in 1..created, filter_subdir \in FilterSubdirs : files(p, filter_subdir)
    \/ \E p \in 1..created : get_replacement_mapping(p)
    \/ \E p \in 1..created, d \in Dicts : set_variable(p, "replacementDict", d)
    \/ \E p \in 1..created : context(p)
    \/ \E p \in 1..created : Package_uuid(p)
    \/ \E p \in 1..created : Package_subid(p)
    \/ \E p \in 1..created :
          File_save("f1", TransferId(p), SipId(p), <<"%transferDirectory%", "a">>)
    \/ write_file(<<"t", "a">>)

PackageSpec == Package_init(NoConfig) /\ [][PackageNext]_vars

\* One package, its unit variables stored by set_variable and by client
\* scripts, and its context.
VariablesNext ==
    \/ \E p \in 1..created : start_ingest(p)
    \/ \E p \in 1..created, key \in VariableNames, d \in Dicts : set_variable(p, key, d)
    \/ /\ Cardinality(unit_variables) < MaxUnitVariables
       /\ \E p \in 1..created :
             \E unit_type \in {"SIP", "Transfer"}, unit_uuid \in {TransferId(p), SipId(p)},
                variable \in VariableNames, value \in TextValues :
                update_variable(unit_type, unit_uuid, variable, value)
    \/ \E p \in 1..created : context(p)

VariablesSpec == Package_init(NoConfig) /\ [][VariablesNext]_vars

\* One package, the catalog and the directory of its files.
FilesNext ==
    \/ \E p \in 1..created : start_ingest(p)
    \/ \E p \in 1..created, path \in UnitPaths : reload(p, path)
    \/ \E p \in 1..created :
          \E uuid \in {"f1", "f2"}, sip_id \in {SipId(p), NoId},
             currentlocation \in Locations :
             File_save(uuid, TransferId(p), sip_id, currentlocation)
    \/ \E f \in DiskFiles : write_file(f)
    \/ \E p \in 1..created, filter_subdir \in FilterSubdirs : files(p, filter_subdir)

FilesSpec == Package_init(NoConfig) /\ [][FilesNext]_vars

\* A caller holds a generator of files() that is not exhausted.
Iterating == returned.op = "files()" /\ returned.value.phase # "done"

\* One package whose files are recorded and written, and the job that iterates
\* over files(), one entry at a time; the catalog and the directory are those
\* of the job, which does not change them while it iterates.  A new generator
\* may be created at any time.
IterNext ==
    \/ \E p \in 1..created : ~Iterating /\ start_ingest(p)
    \/ \E p \in 1..created :
          \E uuid \in {"f1", "f2"}, sip_id \in {SipId(p), NoId},
             currentlocation \in Locations :
             ~Iterating /\ File_save(uuid, TransferId(p), sip_id, currentlocation)
    \/ \E f \in DiskFiles : ~Iterating /\ write_file(f)
    \/ \E p \in 1..created, filter_subdir \in FilterSubdirs : Package_files(p, filter_subdir)
    \/ \E p \in 1..created : files_next(p)

IterSpec == Package_init(NoConfig) /\ [][IterNext]_vars

\* One package created with any processing config or with none.
ConfigNext ==
    \/ \E p \in 1..created : start_ingest(p)
    \/ \E p \in 1..created, path \in UnitPaths : reload(p, path)
    \/ \E p \in 1..created : get_replacement_mapping(p)

ConfigSpec ==
    /\ \E provided \in Configs \cup {NoConfig} : Package_init(provided)
    /\ [][ConfigNext]_vars

----------------------------------------------------------------------------
\* A job and the tasks of its batch (the code of jobs and tasks is not in
\* the source at hand; these definitions follow the specification)

\* The exit codes of a task: that of a task cancelled at its timeout, of a
\* successful task, and of failing ones.
TaskExitCodes == {0 - 2, 0, 1, 2}

JobExitCode_Last(codes) == IF codes = <<>> THEN 0 ELSE codes[Len(codes)]

\* The job's exit code: the maximum of the exit codes of the tasks of its
\* batch, and 0 for a batch without tasks.
RECURSIVE JobExitCode(_)
JobExitCode(codes) ==
    IF codes = <<>> THEN 0
    ELSE IF Len(codes) = 1 THEN codes[1]
    ELSE LET rest == JobExitCode(Tail(codes))
         IN  IF codes[1] > rest THEN codes[1] ELSE rest

\* A task of the batch ends with an exit code.
task_completed(code) ==
    /\ exit_code = NoExitCode
    /\ Len(batch) < MaxTasks
    /\ batch' = Append(batch, code)
    /\ UNCHANGED <<exit_code, ingest, unit_variables, file_objects, filesystem, config,
                   current_path, returned>>
    /\ UNCHANGED <<max_concurrent_packages, max_queued_packages, shutdown_event,
                   active_package_lock, queue_vars, executor_queue, futures,
                   created, thread, transfers, sips, jobs, client>>

\* The batch is complete: the job computes its exit code.
batch_completed ==
    /\ exit_code = NoExitCode
    /\ exit_code' = JobExitCode(batch)
    /\ UNCHANGED <<batch, ingest, unit_variables, file_objects, filesystem, config,
                   current_path, returned>>
    /\ UNCHANGED <<max_concurrent_packages, max_queued_packages, shutdown_event,
                   active_package_lock, queue_vars, executor_queue, futures,
                   created, thread, transfers, sips, jobs, client>>

JobNext ==
    \/ \E code \in TaskExitCodes : task_completed(code)
    \/ batch_completed

JobSpec == Package_init(NoConfig) /\ [][JobNext]_vars

----------------------------------------------------------------------------
\* PackageContext objects.  The OrderedDict a context holds in _data is an
\* object of the heap, the sequence of its items in their order; a context
\* refers to it by its place in the heap.  The caller holds one context and,
\* after copy(), its latest clone (0: none yet).

MaxCopies == 2
ContextKeys == {"k1", "k2"}
ContextValues == {"v1", "v2"}

\* The items given to the constructor, and the mappings given to update.
ContextItems ==
    UNION {[1..n -> ContextKeys \X ContextValues] : n \in 0..2}

\* What the caller holds after the call op on target with args.
Contexts(op, heap, clone, target, args) ==
    MethodReturn(op, 1, "TRANSFER", "none",
                 [heap |-> heap, context |-> 1, clone |-> clone,
                  target |-> target, args |-> args])

\* The object in the heap that the caller's context, or its clone, refers to.
DataOf(target) ==
    IF target = "clone" THEN returned.value.clone ELSE returned.value.context

\* Faulty variant: the clone refers to the OrderedDict of the context.
OrderedDict_copy_Alias(heap, id) == [heap |-> heap, id |-> id]

\* self._data.copy(): a new OrderedDict with the same items.
OrderedDict_copy(heap, id) == [heap |-> Append(heap, heap[id]), id |-> Len(heap) + 1]

\* PackageContext(*items)
PackageContext_init(items) ==
    /\ returned' = Contexts("PackageContext", <<ContextUpdate(<<>>, items)>>, 0,
                            "context", items)
    /\ UNCHANGED <<ingest, unit_variables, file_objects, filesystem, config, current_path>>
    /\ UNCHANGED server_vars

\* context[key] = value, on the context or on its clone
PackageContext_setitem(target, key, value) ==
    /\ returned.op \in {"PackageContext", "__setitem__", "update", "copy"}
    /\ DataOf(target) # 0
    /\ returned' = Contexts("__setitem__",
                            [returned.value.heap EXCEPT ![DataOf(target)] =
                                SetItem(@, key, value)],
                            returned.value.clone, target, << <<key, value>> >>)
    /\ UNCHANGED <<ingest, unit_variables, file_objects, filesystem, config, current_path>>
    /\ UNCHANGED server_vars

\* context.update(mapping), on the context or on its clone
PackageContext_update(target, mapping) ==
    /\ returned.op \in {"PackageContext", "__setitem__", "update", "copy"}
    /\ DataOf(target) # 0
    /\ returned' = Contexts("update",
                            [returned.value.heap EXCEPT ![DataOf(target)] =
                                ContextUpdate(@, mapping)],
                            returned.value.clone, target, mapping)
    /\ UNCHANGED <<ingest, unit_variables, file_objects, filesystem, config, current_path>>
    /\ UNCHANGED server_vars

\* clone = context.copy(), of the context or of its clone
PackageContext_copy(target) ==
    /\ returned.op \in {"PackageContext", "__setitem__", "update", "copy"}
    /\ DataOf(target) # 0
    /\ Len(returned.value.heap) <= MaxCopies
    /\ LET copied == OrderedDict_copy(returned.value.heap, DataOf(target))
       IN  returned' = Contexts("copy", copied.heap, copied.id, target, <<>>)
    /\ UNCHANGED <<ingest, unit_variables, file_objects, filesystem, config, current_path>>
    /\ UNCHANGED server_vars

ContextNext ==
    \/ \E items \in ContextItems : PackageContext_init(items)
    \/ \E target \in {"context", "clone"}, key \in ContextKeys, value \in ContextValues :
          PackageContext_setitem(target, key, value)
    \/ \E target \in {"context", "clone"}, mapping \in ContextItems :
          PackageContext_update(target, mapping)
    \/ \E target \in {"context", "clone"} : PackageContext_copy(target)

ContextSpec == Package_init(NoConfig) /\ [][ContextNext]_vars

----------------------------------------------------------------------------
\* PackageQueue.activate_package and deactivate_package, called on any package,
\* statement by statement

\* with self.active_package_lock: the test, and the package recorded in
\* active_packages when it is not there yet; else the warning is to be logged.
PackageQueue_activate_package(t, p) ==
    /\ thread[t].pc = Rest(t)
    /\ active_package_lock = NoThread
    /\ active_package_lock' = t
    /\ active_packages' = IF InActivePackages(p) THEN active_packages ELSE ActivePackagesWith(p)
    /\ thread' = [thread EXCEPT ![t] =
           [Locals(IF InActivePackages(p) THEN "logger_warning" ELSE "active_package_gauge_inc")
               EXCEPT !.op = "activate_package", !.job = Job(p, "Transfer", 1)]]
    /\ UNCHANGED status_vars
    /\ UNCHANGED <<max_concurrent_packages, max_queued_packages, shutdown_event,
                   active_package_gauge, job_queue, transfer_queue, sip_queue, dip_queue,
                   executor_queue, futures, created>>

\* with self.active_package_lock: the test, and the package deleted from
\* active_packages when it is there; else the warning is to be logged.
PackageQueue_deactivate_package(t, p) ==
    /\ thread[t].pc = Rest(t)
    /\ active_package_lock = NoThread
    /\ active_package_lock' = t
    /\ active_packages' = IF InActivePackages(p) THEN active_packages \ {p} ELSE active_packages
    /\ thread' = [thread EXCEPT ![t] =
           [Locals(IF InActivePackages(p) THEN "active_package_gauge_dec" ELSE "logger_warning")
               EXCEPT !.op = "deactivate_package", !.job = Job(p, "Transfer", 1)]]
    /\ UNCHANGED status_vars
    /\ UNCHANGED <<max_concurrent_packages, max_queued_packages, shutdown_event,
                   active_package_gauge, job_queue, transfer_queue, sip_queue, dip_queue,
                   executor_queue, futures, created>>

\* metrics.active_package_gauge.inc(), .dec() or logger.warning(...), the last
\* statement of the with block: the lock is released and the method returns.
active_package_lock_exit(t) ==
    /\ thread[t].pc \in {"active_package_gauge_inc", "active_package_gauge_dec",
                         "logger_warning"}
    /\ active_package_lock = t
    /\ active_package_gauge' =
           IF thread[t].pc = "active_package_gauge_inc" THEN active_package_gauge + 1
           ELSE IF thread[t].pc = "active_package_gauge_dec" THEN active_package_gauge - 1
           ELSE active_package_gauge
    /\ active_package_lock' = NoThread
    /\ thread' = [thread EXCEPT ![t] = Locals(Rest(t))]
    /\ UNCHANGED status_vars
    /\ UNCHANGED <<max_concurrent_packages, max_queued_packages, shutdown_event,
                   active_packages, job_queue, transfer_queue, sip_queue, dip_queue,
                   executor_queue, futures, created>>

\* The threads of the server call the two methods on any package, in any order.
GaugeNext ==
    \/ \E t \in Threads, p \in Packages : PackageQueue_activate_package(t, p)
    \/ \E t \in Threads, p \in Packages : PackageQueue_deactivate_package(t, p)
    \/ \E t \in Threads : active_package_lock_exit(t)

GaugeSpec == Init /\ [][GaugeNext]_vars

----------------------------------------------------------------------------
\* a3m/client/clientScripts/normalize.py

\* Return codes
SUCCESS == 0
RULE_FAILED == 1
NO_RULE_FOUND == 2

MaxBatch == 2

\* A Command of the FPR: the exit code executeOrRun gives for it, its
\* verification command and its event detail command (NoCommand: None).
NoCommand == <<>>
Command(code, verification_command, event_detail_command) ==
    <<code, verification_command, event_detail_command>>

\* The commands of the rules: each runs to 0 or to 1, alone or with a
\* verification command and an event detail command that have none themselves.
Commands ==
    LET alone == {Command(e, NoCommand, NoCommand) : e \in {0, 1}}
    IN  {Command(e, v, d) : e \in {0, 1}, v \in alone \cup {NoCommand},
                            d \in alone \cup {NoCommand}}

\* Executor.execute: the exit code returned and, in their order, the exit
\* codes of the commands run.  The verification command runs when the command
\* exited 0 and gives the exit code; the event detail command runs when the
\* exit code is 0 then, and what it returns is dropped.
RECURSIVE Executor_execute(_)
Executor_execute(command) ==
    LET ran == [exit_code |-> command[1], ran |-> <<command[1]>>]
        verified ==
            IF ran.exit_code = 0 /\ command[2] # NoCommand
            THEN LET v == Executor_execute(command[2])
                 IN  [exit_code |-> v.exit_code, ran |-> ran.ran \o v.ran]
            ELSE ran
    IN  IF verified.exit_code = 0 /\ command[3] # NoCommand
        THEN [verified EXCEPT !.ran = @ \o Executor_execute(command[3]).ran]
        ELSE verified

\* The arguments of a job: purpose and --thumbnail_mode.
JobOpts ==
    {<<"preservation", "generate">>, <<"access", "generate">>,
     <<"access", "do_not_generate">>, <<"thumbnail", "generate">>,
     <<"thumbnail", "generate_non_default">>, <<"thumbnail", "do_not_generate">>}

\* What main finds for the file, up to the rule: the file is not in the
\* database, lies in submissionDocumentation, has another group use, was
\* normalized manually, has no format version, has a format without rules, or
\* has a rule.
Lookups ==
    {"DoesNotExist", "submissionDocumentation", "filegrpuse", "manual",
     "no_format", "no_rules", "rule"}

\* The command of the format's rule, and those get_default_rule may give (0:
\* no default rule): the same command or another.
RuleCommand == 1
DefaultCommands == {0, 1, 2}

\* A job of the batch: its arguments once parsed, what main did ("not run",
\* "raised" or "returned") and the codes job.set_status was called with.
NormalizeJob(purpose, thumbnail_mode, main, status) ==
    [purpose |-> purpose, thumbnail_mode |-> thumbnail_mode, main |-> main,
     status |-> status]

\* The batch in the hands of call: its jobs, the index of the job the loop
\* is at, where call or main stands in it, the rule's command and the default
\* rule's, and the executions main made for the job.
Batch(batch_jobs, index, pc, command, default, executed) ==
    MethodReturn("call", 1, "TRANSFER", "none",
                 [jobs |-> batch_jobs, index |-> index, pc |-> pc, command |-> command,
                  default |-> default, executed |-> executed])

\* job.set_status(code), and the loop goes to the next job.
SetStatus(main, code) ==
    LET b == returned.value IN
    returned' = Batch([b.jobs EXCEPT ![b.index].main = main,
                                     ![b.index].status = Append(@, code)],
                      b.index + 1, "call", b.command, b.default, b.executed)

\* Faulty variant: the mode alone disables the job.
ThumbnailDisabled_AnyPurpose(purpose, thumbnail_mode) == thumbnail_mode = "do_not_generate"

\* opts.purpose == "thumbnail" and opts.thumbnail_mode == "do_not_generate"
ThumbnailDisabled(purpose, thumbnail_mode) ==
    purpose = "thumbnail" /\ thumbnail_mode = "do_not_generate"

\* Faulty variant: the fallback is tried whatever command the default rule has.
DifferentCommand_Always(fallback_command, command) == TRUE

\* fallback_rule and fallback_rule.command != command
DifferentCommand(fallback_command, command) ==
    fallback_command # 0 /\ fallback_command # command

\* call(jobs): a batch of n jobs is given to the script.
call(n) ==
    /\ returned' = Batch([i \in 1..n |-> NormalizeJob("", "", "not run", <<>>)],
                         1, "call", 0, 0, <<>>)
    /\ UNCHANGED <<ingest, unit_variables, file_objects, filesystem, config, current_path>>
    /\ UNCHANGED server_vars

\* for job in jobs: opts = parser.parse_args(job.args[1:]), of the arguments
\* the workflow gives, which parse; a thumbnail job whose mode is
\* do_not_generate is given SUCCESS, for any other main is called.
call_job(purpose, thumbnail_mode) ==
    LET b == returned.value
        parsed == [b.jobs EXCEPT ![b.index].purpose = purpose,
                                 ![b.index].thumbnail_mode = thumbnail_mode]
    IN
    /\ returned.op = "call"
    /\ b.pc = "call"
    /\ b.index <= Len(b.jobs)
    /\ IF ThumbnailDisabled(purpose, thumbnail_mode)
       THEN returned' = Batch([parsed EXCEPT ![b.index].status = Append(@, SUCCESS)],
                              b.index + 1, "call", 0, 0, <<>>)
       ELSE returned' = Batch(parsed, b.index, "main", 0, 0, <<>>)
    /\ UNCHANGED <<ingest, unit_variables, file_objects, filesystem, config, current_path>>
    /\ UNCHANGED server_vars

\* main(job, opts), to the command it will execute: the early returns, the
\* rule of the format or the default rule; an exception raised on the way
\* reaches call, which sets the status 1.
normalize_main(lookup, default, raises) ==
    LET b == returned.value
        job == b.jobs[b.index]
    IN
    /\ returned.op = "call"
    /\ b.pc = "main"
    /\ IF raises THEN SetStatus("raised", 1)
       ELSE IF lookup = "DoesNotExist" THEN SetStatus("returned", NO_RULE_FOUND)
       ELSE IF lookup \in {"submissionDocumentation", "filegrpuse", "manual"}
       THEN SetStatus("returned", SUCCESS)
       ELSE IF /\ lookup = "no_rules"
               /\ job.purpose = "thumbnail"
               /\ job.thumbnail_mode = "generate_non_default"
       THEN SetStatus("returned", SUCCESS)
       ELSE IF lookup = "rule"
       THEN returned' = Batch(b.jobs, b.index, "execute", RuleCommand, default, <<>>)
       ELSE IF default # 0
       THEN returned' = Batch(b.jobs, b.index, "execute", default, default, <<>>)
       ELSE SetStatus("returned", NO_RULE_FOUND)
    /\ UNCHANGED <<ingest, unit_variables, file_objects, filesystem, config, current_path>>
    /\ UNCHANGED server_vars

\* One execution main made: the command, whether it has an output location
\* and whether the output file is there afterwards, what execute returned.
Execution(id, command, output_location, isfile) ==
    LET cl == Executor_execute(command) IN
    [id |-> id, output_location |-> output_location, isfile |-> isfile,
     exit_code |-> cl.exit_code, ran |-> cl.ran]

\* if not exitstatus == 0: return RULE_FAILED, else return SUCCESS
ReturnCode(exitstatus) == IF exitstatus # 0 THEN RULE_FAILED ELSE SUCCESS

\* cl = Executor(...); exitstatus = cl.execute(), and the test for the
\* fallback: the default rule is looked up again and its command is executed
\* next when it is another one, else main returns.
execute(command, output_location, isfile, raises) ==
    LET b == returned.value
        job == b.jobs[b.index]
        cl == Execution(b.command, command, output_location, isfile)
        executed == Append(b.executed, cl)
        next == [returned.value EXCEPT !.executed = executed]
    IN
    /\ returned.op = "call"
    /\ b.pc = "execute"
    /\ IF raises
       THEN returned' = [returned EXCEPT !.value =
                [next EXCEPT !.jobs[b.index].main = "raised",
                             !.jobs[b.index].status = Append(@, 1),
                             !.index = b.index + 1, !.pc = "call"]]
       ELSE IF /\ cl.exit_code # 0
               /\ job.purpose \in {"access", "thumbnail"}
               /\ output_location
               /\ ~isfile
               /\ DifferentCommand(b.default, b.command)
       THEN returned' = [returned EXCEPT !.value =
                [next EXCEPT !.pc = "fallback", !.command = b.default]]
       ELSE returned' = [returned EXCEPT !.value =
                [next EXCEPT !.jobs[b.index].main = "returned",
                             !.jobs[b.index].status = Append(@, ReturnCode(cl.exit_code)),
                             !.index = b.index + 1, !.pc = "call"]]
    /\ UNCHANGED <<ingest, unit_variables, file_objects, filesystem, config, current_path>>
    /\ UNCHANGED server_vars

\* The fallback: cl = Executor(...); exitstatus = cl.execute(), and main
\* returns.
execute_fallback(command, output_location, isfile, raises) ==
    LET b == returned.value
        cl == Execution(b.command, command, output_location, isfile)
        next == [returned.value EXCEPT !.executed = Append(b.executed, cl)]
    IN
    /\ returned.op = "call"
    /\ b.pc = "fallback"
    /\ returned' = [returned EXCEPT !.value =
           [next EXCEPT !.jobs[b.index].main = IF raises THEN "raised" ELSE "returned",
                        !.jobs[b.index].status =
                            Append(@, IF raises THEN 1 ELSE ReturnCode(cl.exit_code)),
                        !.index = b.index + 1, !.pc = "call"]]
    /\ UNCHANGED <<ingest, unit_variables, file_objects, filesystem, config, current_path>>
    /\ UNCHANGED server_vars

\* The script is called with batches of jobs; the arguments of each job, what
\* the database and the FPR hold for its file and what each command does are
\* any of those above.
NormalizeNext ==
    \/ \E n \in 1..MaxBatch : call(n)
    \/ \E opts \in JobOpts : call_job(opts[1], opts[2])
    \/ \E lookup \in Lookups, default \in DefaultCommands, raises \in BOOLEAN :
          normalize_main(lookup, default, raises)
    \/ \E command \in Commands, output_location \in BOOLEAN, isfile \in BOOLEAN,
          raises \in BOOLEAN : execute(command, output_location, isfile, raises)
    \/ \E command \in Commands, output_location \in BOOLEAN, isfile \in BOOLEAN,
          raises \in BOOLEAN : execute_fallback(command, output_location, isfile, raises)

NormalizeSpec == Package_init(NoConfig) /\ [][NormalizeNext]_vars

----------------------------------------------------------------------------
\* Properties

\* Thread t takes the step.
Steps(t) == thread'[t] # thread[t]

\* The jobs of package p waiting on the active job queue, submitted to the
\* executor and not started, and running on a worker.
JobsOnJobQueue(p) == {i \in 1..Len(job_queue) : job_queue[i].package = p}
JobsSubmitted(p) ==
    {i \in 1..Len(executor_queue) :
        executor_queue[i].fn = "run" /\ executor_queue[i].job.package = p}
JobsRunning(p) == {w \in Workers : thread[w].pc = "run" /\ thread[w].job.package = p}
\* The threads whose _job_completed_callback is scheduling the next job of p.
JobsBeingScheduled(p) ==
    {t \in Threads : /\ thread[t].op = "job_completed_callback"
                     /\ thread[t].pc \in {"schedule_job", "schedule_job_locked", "job_queue_put"}
                     /\ thread[t].job.package = p}

\* C1: the number of active packages never exceeds max_concurrent_packages,
\* whichever way concurrent schedule_job calls and completion callbacks interleave.
C1_ActiveWithinLimit == Cardinality(active_packages) <= max_concurrent_packages

\* C2: for every package at most one of its jobs is waiting on the active job
\* queue or with the worker pool at any time, and while the completion callback
\* of a job schedules the package's next job none of its jobs is there.
C2_OneJobInFlight ==
    \A p \in Packages :
        Cardinality(JobsOnJobQueue(p)) + Cardinality(JobsSubmitted(p))
            + Cardinality(JobsRunning(p)) + Cardinality(JobsBeingScheduled(p)) <= 1

\* The second job of a package's chain runs on a worker.
C2_Witness == \E w \in Workers : thread[w].pc = "run" /\ thread[w].job.seq = 2

\* Package p has a job on one of the three waiting queues.
IsWaiting(p) ==
    \E name \in {"dip", "sip", "transfer"} :
        \E i \in 1..Len(WaitingQueue(name)) : WaitingQueue(name)[i].package = p

WaitingQueuesUnchanged == UNCHANGED <<dip_queue, sip_queue, transfer_queue>>

\* C3: when the job of a terminal link has completed, the callback removes the
\* package from active_packages, and the waiting package it then takes is
\* activated and its job is placed on the active job queue.
C3_TerminalCompletionPromotes ==
    [][\A t \in Threads :
          (thread[t].op = "package_completed_callback" /\ Steps(t)) =>
              /\ thread[t].pc = "deactivate_package" =>
                     active_packages' = active_packages \ {thread[t].job.package}
              /\ thread[t].pc = "job_queue_put_nowait" =>
                     /\ thread[t].job.package \in active_packages
                     /\ job_queue' = Append(job_queue, thread[t].job)]_vars

\* C4: as long as nobody calls stop and every active package leaves the active
\* set again, a package with a job on a waiting queue is eventually promoted:
\* it is activated and its job is on the active job queue.
C4_WaitingEventuallyPromoted ==
    ([]~shutdown_event /\ \A q \in Packages : []<>(q \notin active_packages))
        => \A p \in Packages :
               IsWaiting(p) ~> (p \in active_packages /\ JobsOnJobQueue(p) # {})

TakesFrom(t, name, q) ==
    /\ thread[t].try = name
    /\ q # <<>>
    /\ thread'[t].job = Head(q)
    /\ thread'[t].pc = "activate_package"
    /\ UNCHANGED <<active_packages, job_queue>>

\* Thread t, examining the waiting queue q called name, finds it empty.
FindsEmpty(t, name, q) ==
    /\ thread[t].try = name
    /\ q = <<>>
    /\ UNCHANGED queue_vars

InScheduleJob(t) == thread[t].op \in {"trigger_workflow", "job_completed_callback"}

\* C6: schedule_job puts the job of an active package on the active job queue
\* and touches no waiting queue; it puts the job of an inactive package on its
\* class's waiting queue and then, if it counted fewer than
\* max_concurrent_packages active packages, promotes a waiting package
\* (activates it and puts its job on the active job queue) before it returns,
\* and promotes nothing if the cap was reached.
C6_ScheduleJob ==
    [][\A t \in Threads :
          (InScheduleJob(t) /\ Steps(t)) =>
              LET j == thread[t].job IN
              /\ (thread[t].pc = "schedule_job_locked" /\ j.package \in active_packages) =>
                     /\ WaitingQueuesUnchanged
                     /\ \/ job_queue' = Append(job_queue, j)
                        \/ thread'[t].pc = "job_queue_put" /\ UNCHANGED job_queue
              /\ thread[t].pc = "job_queue_put" =>
                     WaitingQueuesUnchanged /\ job_queue' = Append(job_queue, j)
              /\ (/\ thread[t].pc = "put_package_nowait"
                  /\ ~QueueFull(WaitingQueue(WaitingQueueOf(j.type)), max_queued_packages)) =>
                     /\ j.type = "DIP" =>
                            dip_queue' = Append(dip_queue, j)
                            /\ UNCHANGED <<sip_queue, transfer_queue>>
                     /\ j.type = "SIP" =>
                            sip_queue' = Append(sip_queue, j)
                            /\ UNCHANGED <<dip_queue, transfer_queue>>
                     /\ j.type = "Transfer" =>
                            transfer_queue' = Append(transfer_queue, j)
                            /\ UNCHANGED <<dip_queue, sip_queue>>
                     /\ thread[t].count < max_concurrent_packages =>
                            thread'[t].pc = "get_package_job_nowait"
                     /\ thread[t].count >= max_concurrent_packages =>
                            thread'[t].pc = Rest(t) /\ UNCHANGED <<active_packages, job_queue>>
              /\ thread[t].pc = "job_queue_put_nowait" =>
                     /\ j.package \in active_packages
                     /\ job_queue' = Append(job_queue, j)]_vars

\* C7: once stop has been called no package is added to active_packages, no job
\* is put on the active job queue and no job is submitted to the worker pool.
C7_NothingStartsAfterStop ==
    [][shutdown_event =>
          /\ active_packages' \subseteq active_packages
          /\ Len(job_queue') <= Len(job_queue)
          /\ ~(/\ Len(executor_queue') > Len(executor_queue)
               /\ executor_queue'[Len(executor_queue')].fn = "run")]_vars

\* C8: a schedule_job call that finds the shutdown event set raises
\* RuntimeError and leaves active_packages, the active job queue and the three
\* waiting queues as they were.
C8_ScheduleJobAfterStopRaises ==
    [][\A t \in Threads :
          (thread[t].pc = "schedule_job" /\ shutdown_event /\ Steps(t)) =>
              /\ thread'[t].pc = "log_exception"
              /\ thread'[t].raised = "RuntimeError"
              /\ UNCHANGED queue_vars]_vars

\* A schedule_job call has raised RuntimeError.
C8_Witness ==
    \E t \in Threads : thread[t].pc = "log_exception" /\ thread[t].raised = "RuntimeError"

\* C9: after stop has been called the processing loop returns.
C9_WorkReturnsAfterStop == shutdown_event ~> (thread[Main].pc = "done")

\* All three waiting queues hold max_queued_packages jobs.
AllWaitingQueuesFull ==
    /\ Len(dip_queue) = max_queued_packages
    /\ Len(sip_queue) = max_queued_packages
    /\ Len(transfer_queue) = max_queued_packages

\* C10: with all three waiting queues full and max_concurrent_packages packages
\* active, schedule_job for a package that is not active raises queue.Full and
\* leaves active_packages, the active job queue and the waiting queues as they
\* were.
C10_AllFullRaises ==
    [][\A t \in Threads :
          (/\ InScheduleJob(t) /\ Steps(t)
           /\ thread[t].job.package \notin active_packages
           /\ AllWaitingQueuesFull
           /\ Cardinality(active_packages) = max_concurrent_packages) =>
              /\ thread[t].pc \in {"schedule_job", "schedule_job_locked"} =>
                     UNCHANGED queue_vars
              /\ thread[t].pc = "put_package_nowait" =>
                     /\ thread'[t].pc = "log_exception"
                     /\ thread'[t].raised = "Full"
                     /\ UNCHANGED queue_vars]_vars

\* schedule_job for a new package has raised queue.Full, with all three waiting
\* queues full and the active set at its maximum.
C10_Witness ==
    \E t \in Threads :
        /\ thread[t].pc = "log_exception"
        /\ thread[t].raised = "Full"
        /\ thread[t].op = "trigger_workflow"
        /\ thread[t].job.package \notin active_packages
        /\ ~IsWaiting(thread[t].job.package)
        /\ AllWaitingQueuesFull
        /\ Cardinality(active_packages) = max_concurrent_packages

\* Thread t, in the call of schedule_job that Package.trigger_workflow makes,
\* finds the waiting queue of the package's class full: queue.Full is raised.
SubmissionRefused(t) ==
    /\ Steps(t)
    /\ thread[t].pc = "put_package_nowait"
    /\ thread[t].op = "trigger_workflow"
    /\ QueueFull(WaitingQueue(WaitingQueueOf(thread[t].job.type)), max_queued_packages)

\* C11: when a new submission cannot be queued because the waiting queue of its
\* class is full, the failure is reported to the caller of create_package: the
\* caller does not hold the package as the value create_package returned.
C11_FullReportedToCaller ==
    [][\A t \in Threads :
          SubmissionRefused(t) =>
              ~(/\ client'.op = "create_package"
                /\ client'.result.raised = "none"
                /\ client'.result.package = thread[t].job.package)]_vars

\* A call of create_package returns or raises in this step.
CreatePackageEnds ==
    /\ client' # client
    /\ client'.op = "create_package"
    /\ client'.pc = "returned"

\* C12: create_package called with an empty name or an empty url fails with an
\* invalid-argument error (ValueError), and in that call no Transfer or SIP row
\* is created and nothing is submitted to the executor or scheduled.
C12_InvalidArgumentsRejected ==
    [][(CreatePackageEnds /\ (client'.name = <<>> \/ client'.url = <<>>))
          => /\ client'.result.raised = "ValueError"
             /\ client'.result.package = 0
             /\ UNCHANGED <<transfers, sips, jobs, created, executor_queue, futures,
                            thread, queue_vars>>]_vars

\* A call with a name and no url has raised ValueError.
C12_Witness ==
    /\ client.op = "create_package"
    /\ client.name # <<>>
    /\ client.url = <<>>
    /\ client.result.raised = "ValueError"

\* The main thread, in process_one_job, adds a callback to a future that has
\* finished with the error its job's run raised: the callback runs inline and
\* future.result() re-raises the error in it.
RaisedInProcessOneJob ==
    /\ Steps(Main)
    /\ thread[Main].pc \in {"add_job_callback", "add_package_callback"}
    /\ futures[Key(thread[Main].job)].done
    /\ futures[Key(thread[Main].job)].result = Raised

AccessesActivePackages ==
    \/ active_packages' # active_packages
    \/ \E t \in Threads : Steps(t) /\ thread[t].pc = "schedule_job_locked"
    \/ client' # client /\ client.pc = "active_packages_get"

\* C14: every read or write of active_packages is made while holding
\* active_package_lock, the lookup of get_package_status included: none is made
\* while another thread holds the lock.
C14_ActivePackagesUnderLock ==
    [][AccessesActivePackages => active_package_lock = NoThread]_vars

\* process_one_job comes to its test of job.link.is_terminal with the job's
\* future finished and holding None: the job returned no next job.
ReturnedNoNextJob ==
    /\ Steps(Main)
    /\ thread[Main].pc = "add_package_callback"
    /\ futures[Key(thread[Main].job)].done
    /\ futures[Key(thread[Main].job)].result = NoJob

\* C15: a package stops counting against the cap when one of its jobs returns no
\* next job, on a link that is not terminal as on one that is: the package is
\* then removed from active_packages and queue_next_job lets a waiting package
\* take its slot.  (Stated for a job that had finished when process_one_job
\* came to add the callbacks.)
C15_NoNextJobDeactivates ==
    [][ReturnedNoNextJob
          => /\ thread'[Main].pc = "deactivate_package"
             /\ thread'[Main].job.package = thread[Main].job.package]_vars

\* The most recently created of the rows of models.Job recorded for package p,
\* under its transfer's key or its SIP's (NoJobRow when there is none).
LatestJobsOfPackage(p) ==
    LET rows == {r \in jobs : r.sipuuid \in {TransferId(p), SipId(p)}} IN
    IF rows = {} THEN {NoJobRow} ELSE {r \in rows : \A o \in rows : ~Later(o, r)}

\* get_package_status returns for a package it found in active_packages.
ReturnsForActive ==
    /\ client' # client
    /\ client.pc = "get_latest_job_subid"

\* C16: for a package that is in active_packages, get_package_status returns the
\* status Processing together with the microservice group name of the package's
\* most recently created job, or with no job name when none is recorded.
C16_ActiveIsProcessingWithGroup ==
    [][ReturnsForActive
          => /\ client'.result.raised = "none"
             /\ client'.result.status = "PROCESSING"
             /\ \E job \in LatestJobsOfPackage(client.package) :
                   client'.result.job = job.microservicegroup]_vars

\* The statuses get_package_status is to return.
PackageStatuses == {"FAILED", "REJECTED", "COMPLETE", "PROCESSING"}

\* C17: for every key that has a SIP row, and at every point of the package's
\* life, get_package_status returns one of the statuses Failed, Rejected,
\* Complete and Processing, and never fails with an error.
C17_StatusAlwaysDetermined ==
    (/\ client.op = "get_package_status"
     /\ client.pc = "returned"
     /\ client.package_id \in sips)
        => /\ client.result.raised = "none"
           /\ client.result.status \in PackageStatuses

\* The job the status of inactive package p is to be told from: the latest job
\* under the SIP's key or, when there is none, under the transfer's key.
LatestJobsForStatus(p) ==
    IF get_latest_job(SipId(p)) # {NoJobRow}
    THEN get_latest_job(SipId(p))
    ELSE get_latest_job(TransferId(p))

\* get_package_status, for a package it did not find in active_packages, looks
\* up the latest job and tells the status.
TellsStatusOfInactive ==
    /\ client' # client
    /\ client.pc = "get_latest_job"

\* C18: for a package that is not active the status comes from the latest job
\* under its SIP's key or, if there is none, under its transfer's key: Failed if
\* the job's group contains 'failed', else Rejected if it contains 'reject',
\* else Complete if the job's type is 'a3m - Store AIP'; Processing if no job is
\* recorded under either key.
C18_InactiveStatusFromLatestJob ==
    [][TellsStatusOfInactive =>
          \E job \in LatestJobsForStatus(client.package_id) :
             IF job = NoJobRow
             THEN client'.result.raised = "none" /\ client'.result.status = "PROCESSING"
             ELSE IF Contains(Text_failed, Lower(job.microservicegroup))
             THEN client'.result.raised = "none" /\ client'.result.status = "FAILED"
             ELSE IF Contains(Text_reject, Lower(job.microservicegroup))
             THEN client'.result.raised = "none" /\ client'.result.status = "REJECTED"
             ELSE IF job.jobtype = JobType_StoreAIP
             THEN client'.result.raised = "none" /\ client'.result.status = "COMPLETE"
             ELSE TRUE]_vars

\* get_package_status is called, with a key that has no SIP row.
CalledForUnknownKey ==
    /\ client' # client
    /\ client.pc \in {"idle", "returned"}
    /\ client'.op = "get_package_status"
    /\ client'.package_id \notin sips

\* C19: get_package_status called with a key that has no SIP row fails with
\* PackageNotFoundError and reads nothing from the package queue: the call ends
\* at the lookup of the row, and a call that has come to read active_packages
\* (or gone beyond) is for a key that has a SIP row.
C19_UnknownKeyNotFound ==
    /\ [][CalledForUnknownKey
             => /\ client'.pc = "returned"
                /\ client'.result.raised = "PackageNotFoundError"
                /\ client'.result.status = "none"]_vars
    /\ [](client.pc \in {"active_packages_get", "get_latest_job_subid",
                         "get_latest_job", "get_jobs"}
             => client.package_id \in sips)

\* A call for a key without a SIP row has raised PackageNotFoundError while a
\* package is active.
C19_Witness ==
    /\ client.op = "get_package_status"
    /\ client.pc = "returned"
    /\ client.package_id \notin sips
    /\ client.result.raised = "PackageNotFoundError"
    /\ active_packages # {}

\* get_package_status returns a PackageStatus.
ReturnsStatus ==
    /\ client' # client
    /\ client'.op = "get_package_status"
    /\ client'.pc = "returned"
    /\ client'.result.raised = "none"

\* The rows of models.Job recorded for package p.
JobsOfPackage(p) == {r \in jobs : r.sipuuid \in {TransferId(p), SipId(p)}}

\* C20: the jobs list get_package_status returns holds every job recorded for
\* the package, under its transfer's key or its SIP's, in non-decreasing order
\* of creation time, whatever the package's status.
C20_JobsListComplete ==
    [][ReturnsStatus =>
          LET list == client'.result.jobs
              row(id) == CHOOSE r \in jobs : r.jobuuid = id
          IN /\ {list[i] : i \in DOMAIN list}
                   = {r.jobuuid : r \in JobsOfPackage(client'.package_id)}
             /\ \A i, k \in DOMAIN list :
                   i < k => row(list[i]).createdtime <= row(list[k]).createdtime]_vars

\* Thread t waits for active_package_lock: it stands at a 'with
\* self.active_package_lock' while another thread holds the lock.
WaitsForLock(t) ==
    /\ thread[t].pc \in {"schedule_job_locked", "activate_package", "deactivate_package"}
    /\ active_package_lock \notin {NoThread, t}

\* Thread t holds the lock, blocked in job_queue.put on the full job queue.
BlockedInPut(t) ==
    /\ thread[t].pc = "job_queue_put"
    /\ active_package_lock = t
    /\ QueueFull(job_queue, max_concurrent_packages)

\* C28: no reachable state is a deadlock in which a worker holds
\* active_package_lock, blocked in its put on the full active job queue, while
\* the processing loop, the queue's only consumer, waits for that lock.
C28_NoLockDeadlock ==
    ~(\E w \in PoolWorkers : BlockedInPut(w) /\ WaitsForLock(Main))

\* C29: the active job queue is never asked for more than its capacity: the
\* put_nowait of queue_next_job never finds it full, and the number of queued
\* jobs is at most the number of active packages.
C29_JobQueueNeverOverfull ==
    /\ \A t \in Threads :
          thread[t].pc = "job_queue_put_nowait"
              => ~QueueFull(job_queue, max_concurrent_packages)
    /\ Len(job_queue) <= Cardinality(active_packages)

\* The jobs on the waiting queues.
WaitingJobs ==
    UNION {{WaitingQueue(name)[i] : i \in 1..Len(WaitingQueue(name))} :
              name \in {"dip", "sip", "transfer"}}

\* C30: every job on the active job queue, submitted to the executor or running
\* on a worker belongs to a package in active_packages, and no package in
\* active_packages has a job on a waiting queue.
C30_JobsBelongToActivePackages ==
    /\ \A i \in 1..Len(job_queue) : job_queue[i].package \in active_packages
    /\ \A i \in 1..Len(executor_queue) :
          executor_queue[i].fn = "run" => executor_queue[i].job.package \in active_packages
    /\ \A w \in Workers : thread[w].pc = "run" => thread[w].job.package \in active_packages
    /\ \A j \in WaitingJobs : j.package \notin active_packages

\* A package is active with a job running while another package waits.
C30_Witness ==
    /\ \E w \in Workers : thread[w].pc = "run"
    /\ WaitingJobs # {}
    /\ job_queue # <<>>

\* C21: a package starts in the stage Transfer, and once start_ingest has set
\* the stage to Ingest no operation (reload, files, get_replacement_mapping,
\* set_variable, context, a second start_ingest) sets it back to Transfer.
C21_StageNeverReturnsToTransfer ==
    /\ \A p \in 1..created : StageOf(p) = "TRANSFER"
    /\ [][\A p \in 1..created : p \in ingest => p \in ingest']_vars

\* The package is in the stage Ingest, where set_variable has stored a
\* variable and context has returned, and reload has set its path.
C21_Witness ==
    /\ 1 \in ingest
    /\ returned.stage = "INGEST"
    /\ returned.op = "context"
    /\ \E row \in unit_variables : row.unittype = "SIP"
    /\ current_path # TransferDirectory

\* C22: Package.subid is the transfer id in the stage Transfer and the SIP id
\* in the stage Ingest; Package.uuid, the key in active_packages, is the SIP
\* id in both stages and start_ingest does not change it.
C22_SubidFollowsStageUuidDoesNot ==
    /\ [](returned.op = "subid" =>
             returned.value = IF returned.stage = "INGEST"
                              THEN SipId(returned.package)
                              ELSE TransferId(returned.package))
    /\ [](returned.op = "uuid" => returned.value = SipId(returned.package))
    /\ [][\A p \in 1..created : Uuid(p)' = Uuid(p)]_vars

\* package.uuid was read after start_ingest.
C22_Witness ==
    /\ returned.op = "uuid"
    /\ returned.stage = "INGEST"
    /\ returned.value = SipId(1)
    /\ returned.value # TransferId(1)

\* C23: in both stages, a replacement dictionary stored with
\* set_variable('replacementDict', d, link) is contained in the context the
\* package loads afterwards through Package.context.
C23_StoredDictIsInContext ==
    [][(/\ returned.op = "set_variable"
        /\ returned.value.key = "replacementDict"
        /\ returned.stage = StageOf(returned.package)
        /\ returned'.op = "context"
        /\ returned'.package = returned.package)
       => /\ returned'.raised = "none"
          /\ \A i \in DOMAIN returned.value.value :
                \E j \in DOMAIN returned'.value :
                    returned'.value[j] = returned.value.value[i]]_vars

\* The items of the well-formed replacementDict records of the unit: of the
\* values that are the text of a dict.
WellFormedItems(uuid) ==
    UNION {{literal_eval(row.variablevalue).items[i] :
               i \in DOMAIN literal_eval(row.variablevalue).items} :
           row \in {r \in unit_variables :
                       /\ r.unituuid = uuid
                       /\ r.variable = "replacementDict"
                       /\ literal_eval(r.variablevalue).type = "dict"}}

\* C24: PackageContext.load_from_db never fails because of the content of a
\* stored record: a value that is not a well-formed key/value mapping is
\* skipped, and the context holds exactly the entries of the well-formed
\* records (for a key stored twice, one of its entries).
C24_LoadSkipsMalformedRecords ==
    [][returned'.op = "context" /\ returned' # returned
       => /\ returned'.raised = "none"
          /\ \A j \in DOMAIN returned'.value :
                returned'.value[j] \in WellFormedItems(Subid(returned'.package))
          /\ \A item \in WellFormedItems(Subid(returned'.package)) :
                \E j \in DOMAIN returned'.value : returned'.value[j][1] = item[1]]_vars

\* C25: one iteration of Package.files() never yields two entries for the
\* same absolute path, whatever the catalog and the directory hold.
C25_FilesYieldsEachPathOnce ==
    returned.op = "files" =>
        \A e1 \in returned.value, e2 \in returned.value :
            e1.relativeLocation = e2.relativeLocation => e1 = e2

\* The number a decimal text stands for.
RECURSIVE IntOf(_)
IntOf(text) ==
    IF text[1] = "-" THEN 0 - IntOf(Tail(text))
    ELSE LET last == text[Len(text)]
             value == CHOOSE d \in 0..9 :
                          (<<"0", "1", "2", "3", "4", "5", "6", "7", "8", "9">>)[d + 1] = last
         IN  IF Len(text) = 1 THEN value
             ELSE 10 * IntOf(SubSeq(text, 1, Len(text) - 1)) + value

\* The mapping holds the token of the field, with the text of value.
HasConfigToken(mapping, field, value) ==
    /\ <<"%config:", field, "%">> \in DOMAIN mapping
    /\ LET text == mapping[<<"%config:", field, "%">>]
       IN  IF FieldType(field) = "bool"
           THEN text = IF value = 1 THEN <<"True">> ELSE <<"False">>
           ELSE IntOf(text) = value

\* C26: in both stages the mapping of get_replacement_mapping holds, for
\* every field of the processing config, the token %config:<field>% with
\* the str of the package's value of the field; the package's config is the
\* one it was created with, and the default one when it was given none.
C26_ConfigTokensInMapping ==
    /\ [](returned.op = "get_replacement_mapping" =>
             \A field \in ConfigFields : HasConfigToken(returned.value, field, config[field]))
    /\ [](returned.op = "__init__" =>
             config = IF returned.value = NoConfig THEN DEFAULT_PROCESSING_CONFIG
                      ELSE returned.value)
    /\ [][config' = config]_vars

\* The mapping was read in the stage Ingest by a package that was given a
\* config other than the default one, and holds the token of normalize.
C26_Witness ==
    /\ returned.op = "get_replacement_mapping"
    /\ returned.stage = "INGEST"
    /\ config # DEFAULT_PROCESSING_CONFIG
    /\ returned.value[<<"%config:", "normalize", "%">>] = <<"False">>
    /\ returned.value[<<"%config:", "aip_compression_level", "%">>] = <<"1", "0">>

AwaitsAdmission(p, ty) ==
    \/ \E i \in 1..Len(WaitingQueue(WaitingQueueOf(ty))) :
          WaitingQueue(WaitingQueueOf(ty))[i] = Job(p, ty, 1)
    \/ /\ p \notin active_packages
       /\ \E t \in Threads : thread[t].pc = "activate_package" /\ thread[t].job = Job(p, ty, 1)

\* C31: within one package class waiting packages are promoted first in,
\* first out: a later submission of the class is never admitted before an
\* earlier one.  With one worker the packages' first jobs reach the waiting
\* queues in the order of the packages' creation, so no package is activated
\* while an earlier one of its class still awaits admission.
C31_AdmittedInSubmissionOrder ==
    [][\A t \in Threads :
          (/\ thread[t].pc = "activate_package"
           /\ thread'[t].pc = "job_queue_put_nowait"
           /\ thread[t].job.seq = 1)
          => ~(\E p \in 1..(thread[t].job.package - 1) :
                  AwaitsAdmission(p, thread[t].job.type))]_vars

\* A job whose future carries the package callback, the job of a terminal link,
\* returns a next job on worker w in this step.
TerminalLinkReturnsNextJob(w) ==
    /\ thread[w].pc = "run"
    /\ \E i \in 1..Len(futures[Key(thread[w].job)].callbacks) :
          futures[Key(thread[w].job)].callbacks[i] = "package_completed_callback"
    /\ thread'[w].pc = "schedule_job"

\* C32: when the job of a terminal link returns a next job, the completion
\* schedules that job and nothing else: the job callback goes to schedule_job
\* with it and the package callback is left with nothing to do; the thread
\* scheduling a completed job's next job leaves the package in active_packages,
\* takes nothing from a waiting queue, and ends by putting the job on the
\* active job queue.
C32_TerminalNextJobIsScheduled ==
    /\ [][\A w \in Workers : TerminalLinkReturnsNextJob(w) =>
             /\ thread'[w].op = "job_completed_callback"
             /\ thread'[w].job = Job(thread[w].job.package, thread[w].job.type,
                                     thread[w].job.seq + 1)
             /\ thread'[w].left = "none"
             /\ thread[w].job.package \in active_packages'
             /\ UNCHANGED queue_vars]_vars
    /\ [][\A t \in Threads :
             (thread[t].op = "job_completed_callback" /\ Steps(t)) =>
                /\ thread[t].job.package \in active_packages
                /\ active_packages' = active_packages
                /\ WaitingQueuesUnchanged
                /\ thread'[t].pc \in {"schedule_job_locked", "job_queue_put", Rest(t)}
                /\ thread'[t].pc = Rest(t) =>
                      job_queue' = QueuePut(job_queue, thread[t].job)]_vars

\* The job of a terminal link runs with both callbacks registered and can
\* return a next job, while another package waits to be promoted.
C32_Witness ==
    \E w \in Workers :
       /\ thread[w].pc = "run"
       /\ thread[w].job.seq < MaxJobs
       /\ futures[Key(thread[w].job)].callbacks =
             <<"job_completed_callback", "package_completed_callback">>
       /\ WaitingJobs # {}

\* C33: schedule_job for a package that is not active raises queue.Full only
\* when all three waiting queues are full.
C33_FullOnlyWhenAllQueuesFull ==
    [][\A t \in Threads :
          (/\ thread[t].pc = "put_package_nowait"
           /\ thread'[t].pc = "log_exception"
           /\ thread'[t].raised = "Full") => AllWaitingQueuesFull]_vars

\* Thread t is in a call of activate_package or deactivate_package that found
\* nothing to do: the package was active already, or was not active.
RepeatedCall(t) == thread[t].pc = "logger_warning"

\* C34: activating a package that is already active, or deactivating one that
\* is not active, leaves active_packages and the gauge as they were, from the
\* call to its return; and whenever the lock is free the gauge equals the
\* number of packages in active_packages.
C34_ActivationIsIdempotent ==
    /\ [](active_package_lock = NoThread =>
             active_package_gauge = Cardinality(active_packages))
    /\ [][\A t \in Threads, p \in Packages :
             (/\ Steps(t)
              /\ thread[t].pc = Rest(t)
              /\ thread'[t].job.package = p
              /\ \/ thread'[t].op = "activate_package" /\ p \in active_packages
                 \/ thread'[t].op = "deactivate_package" /\ p \notin active_packages)
             => (RepeatedCall(t)' /\ UNCHANGED <<active_packages, active_package_gauge>>)]_vars
    /\ [][\A t \in Threads :
             (RepeatedCall(t) /\ Steps(t)) =>
                 (thread'[t].pc = Rest(t)
                  /\ UNCHANGED <<active_packages, active_package_gauge>>)]_vars

\* activate_package was called on a package that is active already, while
\* another package is not active, and found nothing to do.
C34_Witness ==
    \E t \in Threads :
       /\ RepeatedCall(t)
       /\ thread[t].op = "activate_package"
       /\ thread[t].job.package \in active_packages
       /\ active_packages # Packages
       /\ active_package_gauge = Cardinality(active_packages)

\* The entries the generator the caller holds has yielded, in their order.
Yielded == returned.value.yielded

\* C35: in one iteration of Package.files(), after each next(): no entry from
\* the catalog follows an entry that comes from the walk only; every catalog
\* entry yielded is for a row whose file is on disk; once the walk has begun
\* every row of the queryset whose file exists has been yielded; and an
\* iteration that has run to its end, whatever generator was held before it,
\* has yielded each entry of files() once.
C35_CatalogEntriesFirst ==
    [][(returned'.op = "files()" /\ returned' # returned) =>
        /\ \A i \in 1..Len(Yielded'), j \in 1..Len(Yielded') :
              (i < j /\ Yielded'[i].fileUUID = "None") => Yielded'[j].fileUUID = "None"
        /\ \A i \in 1..Len(Yielded') :
              Yielded'[i].fileUUID # "None" =>
                 /\ \E row \in file_objects : row.uuid = Yielded'[i].fileUUID
                 /\ \E f \in filesystem : IsPrefix(Components(Yielded'[i].relativeLocation), f)
        /\ returned'.value.phase \in {"walk", "done"} =>
              \A entry \in FilesYielded(returned'.package, returned'.value.filter_subdir) :
                 entry.fileUUID # "None" => \E i \in 1..Len(Yielded') : Yielded'[i] = entry
        /\ returned'.value.phase = "done" =>
              /\ {Yielded'[i] : i \in 1..Len(Yielded')} =
                    FilesYielded(returned'.package, returned'.value.filter_subdir)
              /\ \A i \in 1..Len(Yielded'), j \in 1..Len(Yielded') :
                    Yielded'[i] = Yielded'[j] => i = j]_vars

\* An iteration has ended that yielded a catalog entry and then an entry of
\* the walk, and skipped a row of the catalog whose file is not on disk.
C35_Witness ==
    /\ returned.op = "files()"
    /\ returned.value.phase = "done"
    /\ Len(Yielded) >= 2
    /\ Yielded[1].fileUUID # "None"
    /\ Yielded[Len(Yielded)].fileUUID = "None"
    /\ \E row \in base_queryset(returned.package) :
          /\ ~Exists(InputFile(row, current_path))
          /\ \A i \in 1..Len(Yielded) : Yielded[i].fileUUID # row.uuid

\* The keys of the items, in the order of iteration.
KeysOf(items) == [i \in 1..Len(items) |-> items[i][1]]

\* The last item of mapping with the key, the one whose value the key keeps.
LastValue(mapping, key) ==
    mapping[CHOOSE i \in 1..Len(mapping) :
               /\ mapping[i][1] = key
               /\ \A j \in (i + 1)..Len(mapping) : mapping[j][1] # key][2]

\* The caller holds contexts in both states of the step.
ContextStep ==
    /\ returned.op \in {"PackageContext", "__setitem__", "update", "copy"}
    /\ returned'.op \in {"__setitem__", "update", "copy"}

\* C36: a context iterates over its keys in the order of their first
\* insertion: an assignment or an update leaves the keys that were there in
\* their places and adds the new keys after them, each key assigned holds the
\* value given last and every other key keeps its value; a copy iterates as
\* the original does at that time, and an assignment or an update made
\* through the clone leaves the original's items as they were, and one made
\* through the original leaves the clone's.
C36_ContextKeepsInsertionOrder ==
    [][ContextStep =>
        LET before == returned.value
            after == returned'.value
            id == IF after.target = "clone" THEN before.clone ELSE before.context
            other == IF after.target = "clone" THEN before.context ELSE before.clone
        IN  IF returned'.op = "copy"
            THEN /\ after.heap[after.clone] = before.heap[id]
                 /\ after.heap[after.context] = before.heap[before.context]
                 /\ after.clone # after.context
            ELSE /\ Len(after.heap[id]) >= Len(before.heap[id])
                 /\ SubSeq(KeysOf(after.heap[id]), 1, Len(before.heap[id])) =
                       KeysOf(before.heap[id])
                 /\ \A i \in 1..Len(after.heap[id]), j \in 1..Len(after.heap[id]) :
                       after.heap[id][i][1] = after.heap[id][j][1] => i = j
                 /\ \A i \in 1..Len(after.heap[id]) :
                       IF \E k \in 1..Len(after.args) : after.args[k][1] = after.heap[id][i][1]
                       THEN after.heap[id][i][2] = LastValue(after.args, after.heap[id][i][1])
                       ELSE after.heap[id][i] = before.heap[id][i]
                 /\ \A k \in 1..Len(after.args) :
                       \E i \in 1..Len(after.heap[id]) : after.heap[id][i][1] = after.args[k][1]
                 /\ other # 0 => after.heap[other] = before.heap[other]
                 /\ after.clone = before.clone]_vars

\* Through the clone of a context that holds k1 and then k2, k1 was given a
\* new value: the clone iterates over k1 and k2 in that order and differs from
\* the original.
C36_Witness ==
    /\ returned.op = "__setitem__"
    /\ returned.value.target = "clone"
    /\ returned.value.args[1][1] = "k1"
    /\ KeysOf(returned.value.heap[returned.value.context]) = <<"k1", "k2">>
    /\ KeysOf(returned.value.heap[returned.value.clone]) = <<"k1", "k2">>
    /\ returned.value.heap[returned.value.clone][1][2] #
          returned.value.heap[returned.value.context][1][2]

\* The executions main has made for the job the batch is at, or was at last.
Executed == returned.value.executed

\* C37: Executor.execute returns 0 exactly when every command it ran, the
\* command, its verification command and its event detail command, exited 0.
C37_ExecuteReturnsZeroIffAllSucceeded ==
    returned.op = "call" =>
        \A k \in 1..Len(Executed) :
            Executed[k].exit_code = 0 <=>
                \A i \in 1..Len(Executed[k].ran) : Executed[k].ran[i] = 0

\* The job the executions were made for: the one main is in, or the one the
\* loop has just left.
ExecutedJob ==
    IF returned.value.pc = "call"
    THEN returned.value.jobs[returned.value.index - 1]
    ELSE returned.value.jobs[returned.value.index]

\* C38: main executes at most two commands for a file; a second one only for
\* the purpose access or thumbnail, after a first that returned non-zero, has
\* an output location and left no file there, and never the command that has
\* just failed; and what main returns is 0, 1 or 2.
C38_AtMostOneFallback ==
    returned.op = "call" =>
        /\ Len(Executed) <= 2
        /\ (Len(Executed) = 2 \/ returned.value.pc = "fallback") =>
              /\ ExecutedJob.purpose \in {"access", "thumbnail"}
              /\ Executed[1].exit_code # 0
              /\ Executed[1].output_location
              /\ ~Executed[1].isfile
        /\ returned.value.pc = "fallback" =>
              /\ Len(Executed) = 1
              /\ returned.value.command \notin {0, Executed[1].id}
        /\ Len(Executed) = 2 => Executed[2].id \notin {0, Executed[1].id}
        /\ \A i \in 1..Len(returned.value.jobs) :
              returned.value.jobs[i].main = "returned" =>
                 \A k \in 1..Len(returned.value.jobs[i].status) :
                    returned.value.jobs[i].status[k] \in {SUCCESS, RULE_FAILED, NO_RULE_FOUND}

\* main has returned after the command of the format's rule failed for a
\* thumbnail and the default rule's command, another one, was executed.
C38_Witness ==
    /\ returned.op = "call"
    /\ returned.value.pc = "call"
    /\ Len(Executed) = 2
    /\ ExecutedJob.purpose = "thumbnail"
    /\ ExecutedJob.main = "returned"
    /\ Executed[1].id = RuleCommand
    /\ Executed[2].id = 2
    /\ Executed[2].exit_code = 0
    /\ ExecutedJob.status = <<SUCCESS>>

\* C39: call sets one status on each job, in the order of the batch: the jobs
\* before the one the loop is at have one status each and the others none; a
\* thumbnail job whose mode is do_not_generate has SUCCESS and main was not
\* run for it, for every other job main was run; the status is 1 when main
\* raised and one of main's return codes when it returned.
C39_OneStatusPerJob ==
    returned.op = "call" =>
        /\ returned.value.index \in 1..(Len(returned.value.jobs) + 1)
        /\ \A i \in 1..Len(returned.value.jobs) :
              LET job == returned.value.jobs[i] IN
              IF i < returned.value.index
              THEN /\ Len(job.status) = 1
                   /\ IF job.purpose = "thumbnail" /\ job.thumbnail_mode = "do_not_generate"
                      THEN job.main = "not run" /\ job.status = <<SUCCESS>>
                      ELSE job.main \in {"raised", "returned"}
                   /\ job.main = "raised" => job.status = <<1>>
                   /\ job.main = "returned" =>
                         job.status[1] \in {SUCCESS, RULE_FAILED, NO_RULE_FOUND}
              ELSE job.status = <<>> /\ job.main = "not run"

\* The batch is done: main raised for its first job, and the second job, a
\* thumbnail that is not to be generated, has its status.
C39_Witness ==
    /\ returned.op = "call"
    /\ Len(returned.value.jobs) = 2
    /\ returned.value.index = 3
    /\ returned.value.jobs[1].main = "raised"
    /\ returned.value.jobs[1].status = <<1>>
    /\ returned.value.jobs[2].purpose = "thumbnail"
    /\ returned.value.jobs[2].thumbnail_mode = "do_not_generate"
    /\ returned.value.jobs[2].status = <<SUCCESS>>

====
